---------------------------- MODULE Spec2Model ----------------------------
(***************************************************************************)
(* A model of serde-mml: a serde data format whose wire format is a        *)
(* Markdown document of nested lists of links.                             *)
(*                                                                         *)
(*   ty.rs         Type, its Display encoding and Type::from_str           *)
(*   md/writer.rs  Writer, List, Bullet, EscapedFormatter                  *)
(*   md/reader.rs  Reader (an Iterator of Item)                            *)
(*   ser.rs        Serializer, SublistSerializer, MapSerializer            *)
(*   de.rs         Deserializer and its Seq/Map/Variant accessors          *)
(*                                                                         *)
(* Text is a sequence of one-character strings, so that formatting,        *)
(* escaping, splitting and parsing are computed character by character.    *)
(* An Option<T> is the empty sequence (None) or a one-element sequence.    *)
(***************************************************************************)
EXTENDS Integers, Sequences, FiniteSets, TLC

VARIABLES
    pc,      \* the step the scenario has reached
    input,   \* what the scenario started from: a tag, a value, a text, a document
    output,  \* the text in the Writer's sink
    cursor,  \* the list context the writing call left behind (Serializer.list)
    reader,  \* the Reader being polled
    tokens,  \* the items its next() has returned so far, one per call
    result   \* Some(result) of Type::from_str or of T::deserialize

vars == <<pc, input, output, cursor, reader, tokens, result>>

(***************************************************************************)
(* Bounds of the model.                                                    *)
(***************************************************************************)
\* longest name / variant fragment of a generated Type tag
MaxNameLen == 1
\* largest length carried by a generated Type tag (two decimal digits)
MaxTagLen == 11

(***************************************************************************)
(* Characters and text.                                                    *)
(***************************************************************************)
\* The characters of a string literal, one per element.
Str(s) == [i \in 1..Len(s) |-> SubSeq(s, i, i)]

None == <<>>

Some(x) == <<x>>

DigitChars == <<"0", "1", "2", "3", "4", "5", "6", "7", "8", "9">>

\* char::is_ascii_digit
is_ascii_digit(c) == \E i \in 1..10 : DigitChars[i] = c

DigitVal(c) == (CHOOSE i \in 1..10 : DigitChars[i] = c) - 1

\* The grave accent (U+0060), which cannot be written in a string of this
\* notation: the one character of the model that is not a one-letter string.
Grave == "U+0060"

\* char::is_ascii_punctuation: the 32 ASCII punctuation characters.
is_ascii_punctuation(c) ==
    c \in {"!", "\"", "#", "$", "%", "&", "'", "(", ")", "*", "+", ",", "-",
           ".", "/", ":", ";", "<", "=", ">", "?", "@", "[", "\\", "]", "^",
           "_", Grave, "{", "|", "}", "~"}

\* The printable ASCII characters in the order of their codes, from the
\* space (32) to the tilde (126).
Ascii ==
    Str(" !\"#$%&'()*+,-./0123456789:;<=>?@ABCDEFGHIJKLMNOPQRSTUVWXYZ[\\]^_")
    \o <<Grave>> \o Str("abcdefghijklmnopqrstuvwxyz{|}~")

\* str::as_bytes of a text of printable ASCII characters (a line break is
\* byte 10).
as_bytes(text) ==
    [i \in 1..Len(text) |->
        IF text[i] = "\n" THEN 10 ELSE 31 + (CHOOSE j \in 1..Len(Ascii) : Ascii[j] = text[i])]

\* All sequences over S of length at most n.
SeqsUpTo(S, n) == UNION {[1..k -> S] : k \in 0..n}

RECURSIVE Concat(_)
\* Concatenation of a sequence of texts.
Concat(ss) == IF ss = <<>> THEN <<>> ELSE Head(ss) \o Concat(Tail(ss))

RECURSIVE FmtUnsigned(_)
\* Display of a small unsigned integer (a bullet number): its decimal digits,
\* no sign, no padding.
FmtUnsigned(n) ==
    IF n < 10 THEN <<DigitChars[n + 1]>>
    ELSE FmtUnsigned(n \div 10) \o <<DigitChars[(n % 10) + 1]>>

(***************************************************************************)
(* The integers of the program are up to 128 bits wide, wider than the     *)
(* integers of this notation.  An integer payload (the value of an i8 ..   *)
(* u128, a usize length) is held as a numeral: its sign and the values of  *)
(* its decimal digits, most significant first, without leading zeros; zero *)
(* is the single digit 0 and is not negative.                              *)
(***************************************************************************)
RECURSIVE Digits(_)
\* The digit values of a natural number of this notation.
Digits(n) == IF n < 10 THEN <<n>> ELSE Digits(n \div 10) \o <<n % 10>>

\* The numeral of an integer of this notation.
Num(n) == [neg |-> n < 0, mag |-> Digits(IF n < 0 THEN 0 - n ELSE n)]

\* A run of digit values without its leading zeros (one digit at least).
StripZeros(ds) ==
    IF ds = <<>> THEN ds
    ELSE IF \A i \in 1..Len(ds) : ds[i] = 0 THEN <<0>>
    ELSE SubSeq(ds, CHOOSE i \in 1..Len(ds) : ds[i] # 0 /\ \A j \in 1..(i - 1) : ds[j] = 0,
                Len(ds))

\* The numeral a run of digit characters denotes, negated when neg.
NumOf(neg, ds) ==
    LET signed(mag) == [neg |-> neg /\ mag # <<0>>, mag |-> mag]
    IN  signed(StripZeros(<<>> \o [i \in 1..Len(ds) |-> DigitVal(ds[i])]))

\* The numeral of a decimal literal, written as a string.
Dec(s) == NumOf(SubSeq(s, 1, 1) = "-", IF SubSeq(s, 1, 1) = "-" THEN Tail(Str(s)) ELSE Str(s))

\* a < b on magnitudes: the shorter is the smaller, equal lengths compare
\* digit by digit.
MagLess(a, b) ==
    \/ Len(a) < Len(b)
    \/ /\ Len(a) = Len(b)
       /\ \E i \in 1..Len(a) : a[i] < b[i] /\ \A j \in 1..(i - 1) : a[j] = b[j]

\* x <= y on numerals.
NumLeq(x, y) ==
    \/ x = y
    \/ IF x.neg # y.neg THEN x.neg
       ELSE IF x.neg THEN MagLess(y.mag, x.mag) ELSE MagLess(x.mag, y.mag)

\* The value of a numeral of at most nine digits as an integer of this
\* notation.
RECURSIVE MagValue(_, _)
MagValue(mag, acc) == IF mag = <<>> THEN acc ELSE MagValue(Tail(mag), acc * 10 + Head(mag))

\* Display of an integer: "-" when negative, then its decimal digits.
FmtInt(x) ==
    (IF x.neg THEN <<"-">> ELSE <<>>) \o [i \in 1..Len(x.mag) |-> DigitChars[x.mag[i] + 1]]

\* <integer>::from_str for a type with range lo..hi: an optional sign ("+"
\* always, "-" for signed types only), then at least one digit, nothing else;
\* a value outside the range is an error.
ParseInt(text, lo, hi) ==
    LET ranged(n) ==
            IF ~NumLeq(lo, n) \/ ~NumLeq(n, hi)
            THEN [ok |-> FALSE, err |-> "IntParseError"]
            ELSE [ok |-> TRUE, val |-> n]
        digits(neg, ds) ==
            IF ds = <<>> \/ \E i \in 1..Len(ds) : ~is_ascii_digit(ds[i])
            THEN [ok |-> FALSE, err |-> "IntParseError"]
            ELSE ranged(NumOf(neg, ds))
        signed(hasSign) ==
            digits(hasSign /\ Head(text) = "-", IF hasSign THEN Tail(text) ELSE text)
    IN  signed(text # <<>> /\ (Head(text) = "+" \/ (lo.neg /\ Head(text) = "-")))

\* str::parse::<usize>(), usize being 64 bits wide.
ParseUsize(text) == ParseInt(text, Dec("0"), Dec("18446744073709551615"))

RECURSIVE SplitFrom(_, _, _)
\* str::split(sep): the pieces between separators; an empty text gives one
\* empty piece, a trailing separator gives a trailing empty piece.
SplitFrom(s, sep, cur) ==
    IF s = <<>> THEN <<cur>>
    ELSE IF Head(s) = sep THEN <<cur>> \o SplitFrom(Tail(s), sep, <<>>)
    ELSE SplitFrom(Tail(s), sep, Append(cur, Head(s)))

split(s, sep) == SplitFrom(s, sep, <<>>)

\* str::starts_with
starts_with(s, p) == Len(s) >= Len(p) /\ SubSeq(s, 1, Len(p)) = p

(***************************************************************************)
(* ty.rs: the Type tag.  kind names the variant; name, variant and len     *)
(* hold the fields the variant carries (None for a field it lacks).        *)
(***************************************************************************)
Ty(kind, name, variant, len) ==
    [kind |-> kind, name |-> name, variant |-> variant, len |-> len]

Plain(kind) == Ty(kind, None, None, None)

PlainKinds ==
    {"Bool", "I8", "I16", "I32", "I64", "I128", "U8", "U16", "U32", "U64",
     "U128", "F32", "F64", "Char", "String", "Bytes", "None", "Some", "Unit"}

SCHEMA == Str("serde://")

Slash == <<"/">>

\* impl fmt::Display for Type
Type_fmt(t) ==
    CASE t.kind = "Bool" -> SCHEMA \o Str("bool")
      [] t.kind = "I8" -> SCHEMA \o Str("i8")
      [] t.kind = "I16" -> SCHEMA \o Str("i16")
      [] t.kind = "I32" -> SCHEMA \o Str("i32")
      [] t.kind = "I64" -> SCHEMA \o Str("i64")
      [] t.kind = "I128" -> SCHEMA \o Str("i128")
      [] t.kind = "U8" -> SCHEMA \o Str("u8")
      [] t.kind = "U16" -> SCHEMA \o Str("u16")
      [] t.kind = "U32" -> SCHEMA \o Str("u32")
      [] t.kind = "U64" -> SCHEMA \o Str("u64")
      [] t.kind = "U128" -> SCHEMA \o Str("u128")
      [] t.kind = "F32" -> SCHEMA \o Str("f32")
      [] t.kind = "F64" -> SCHEMA \o Str("f64")
      [] t.kind = "Char" -> SCHEMA \o Str("char")
      [] t.kind = "String" -> SCHEMA \o Str("string")
      [] t.kind = "Bytes" -> SCHEMA \o Str("bytes")
      [] t.kind = "None" -> SCHEMA \o Str("none")
      [] t.kind = "Some" -> SCHEMA \o Str("some")
      [] t.kind = "Unit" -> SCHEMA \o Str("unit")
      [] t.kind = "UnitStruct" -> SCHEMA \o Str("unit_struct") \o Slash \o t.name[1]
      [] t.kind = "UnitVariant" ->
           SCHEMA \o Str("unit_variant") \o Slash \o t.name[1] \o Slash \o t.variant[1]
      [] t.kind = "NewtypeStruct" -> SCHEMA \o Str("newtype_struct") \o Slash \o t.name[1]
      [] t.kind = "NewtypeVariant" ->
           SCHEMA \o Str("newtype_variant") \o Slash \o t.name[1] \o Slash \o t.variant[1]
      [] t.kind = "Seq" /\ t.len # None -> SCHEMA \o Str("seq") \o Slash \o FmtInt(t.len[1])
      [] t.kind = "Seq" /\ t.len = None -> SCHEMA \o Str("seq") \o Slash
      [] t.kind = "Tuple" -> SCHEMA \o Str("tuple") \o Slash \o FmtInt(t.len[1])
      [] t.kind = "TupleStruct" ->
           SCHEMA \o Str("tuple_struct") \o Slash \o t.name[1] \o Slash \o FmtInt(t.len[1])
      [] t.kind = "TupleVariant" ->
           SCHEMA \o Str("tuple_variant") \o Slash \o t.name[1] \o Slash \o t.variant[1]
               \o Slash \o FmtInt(t.len[1])
      [] t.kind = "Map" /\ t.len # None -> SCHEMA \o Str("map") \o Slash \o FmtInt(t.len[1])
      [] t.kind = "Map" /\ t.len = None -> SCHEMA \o Str("map") \o Slash
      [] t.kind = "Struct" ->
           SCHEMA \o Str("struct") \o Slash \o t.name[1] \o Slash \o FmtInt(t.len[1])
      [] t.kind = "StructVariant" ->
           SCHEMA \o Str("struct_variant") \o Slash \o t.name[1] \o Slash \o t.variant[1]
               \o Slash \o FmtInt(t.len[1])

Err(e) == [ok |-> FALSE, err |-> e]

Ok(v) == [ok |-> TRUE, val |-> v]

\* fragment that takes a missing piece for an empty one.
fragment_lenient(parts, i) ==
    IF i <= Len(parts) THEN Ok(parts[i]) ELSE Ok(<<>>)

\* fn fragment: the next piece of the split, MissingPathFragment if none is left.
fragment(parts, i) ==
    IF i <= Len(parts) THEN Ok(parts[i]) ELSE Err("MissingPathFragment")

\* opt_len without the empty-piece case: an empty length is parsed as a number.
opt_len_strict(parts, i) ==
    LET parsed(n) == IF n.ok THEN Ok(Some(n.val)) ELSE n
    IN  IF i > Len(parts) THEN Ok(None)
        ELSE parsed(ParseUsize(parts[i]))

\* fn opt_len: None when the next piece is absent or empty, else the piece
\* parsed as usize.
opt_len(parts, i) ==
    LET parsed(n) == IF n.ok THEN Ok(Some(n.val)) ELSE n
    IN  IF i > Len(parts) \/ parts[i] = <<>> THEN Ok(None)
        ELSE parsed(ParseUsize(parts[i]))

\* fragment(..)?.parse()?: a required length fragment.
len_fragment(parts, i) ==
    LET parsed(n) == IF n.ok THEN Ok(Some(n.val)) ELSE n
        taken(f) == IF ~f.ok THEN f ELSE parsed(ParseUsize(f.val))
    IN  taken(fragment(parts, i))

\* The fragments of one variant, taken in order; the first failure wins.
\* nName is the number of leading text fragments (name, variant), lenKind
\* says whether a length follows: "no", "req" (fragment + parse) or "opt".
Fragments(kind, parts, nName, lenKind) ==
    LET taken(f1, f2, ln) ==
            IF nName >= 1 /\ ~f1.ok THEN f1
            ELSE IF nName >= 2 /\ ~f2.ok THEN f2
            ELSE IF ~ln.ok THEN ln
            ELSE Ok(Ty(kind,
                       IF nName >= 1 THEN Some(f1.val) ELSE None,
                       IF nName >= 2 THEN Some(f2.val) ELSE None,
                       ln.val))
    IN  taken(fragment(parts, 2), fragment(parts, 3),
              CASE lenKind = "req" -> len_fragment(parts, nName + 2)
                [] lenKind = "opt" -> opt_len(parts, nName + 2)
                [] OTHER -> Ok(None))

\* Type::from_str, the match on the domain: parts are the pieces between
\* the slashes of the text after the schema.
from_parts(parts) ==
    CASE parts[1] = Str("bool") -> Ok(Plain("Bool"))
      [] parts[1] = Str("i8") -> Ok(Plain("I8"))
      [] parts[1] = Str("i16") -> Ok(Plain("I16"))
      [] parts[1] = Str("i32") -> Ok(Plain("I32"))
      [] parts[1] = Str("i64") -> Ok(Plain("I64"))
      [] parts[1] = Str("i128") -> Ok(Plain("I128"))
      [] parts[1] = Str("u8") -> Ok(Plain("U8"))
      [] parts[1] = Str("u16") -> Ok(Plain("U16"))
      [] parts[1] = Str("u32") -> Ok(Plain("U32"))
      [] parts[1] = Str("u64") -> Ok(Plain("U64"))
      [] parts[1] = Str("u128") -> Ok(Plain("U128"))
      [] parts[1] = Str("f32") -> Ok(Plain("F32"))
      [] parts[1] = Str("f64") -> Ok(Plain("F64"))
      [] parts[1] = Str("char") -> Ok(Plain("Char"))
      [] parts[1] = Str("string") -> Ok(Plain("String"))
      [] parts[1] = Str("bytes") -> Ok(Plain("Bytes"))
      [] parts[1] = Str("none") -> Ok(Plain("None"))
      [] parts[1] = Str("some") -> Ok(Plain("Some"))
      [] parts[1] = Str("unit") -> Ok(Plain("Unit"))
      [] parts[1] = Str("unit_struct") -> Fragments("UnitStruct", parts, 1, "no")
      [] parts[1] = Str("unit_variant") -> Fragments("UnitVariant", parts, 2, "no")
      [] parts[1] = Str("newtype_struct") -> Fragments("NewtypeStruct", parts, 1, "no")
      [] parts[1] = Str("newtype_variant") ->
           Fragments("NewtypeVariant", parts, 2, "no")
      [] parts[1] = Str("seq") -> Fragments("Seq", parts, 0, "opt")
      [] parts[1] = Str("tuple") -> Fragments("Tuple", parts, 0, "req")
      [] parts[1] = Str("tuple_struct") -> Fragments("TupleStruct", parts, 1, "req")
      [] parts[1] = Str("tuple_variant") ->
           Fragments("TupleVariant", parts, 2, "req")
      [] parts[1] = Str("map") -> Fragments("Map", parts, 0, "opt")
      [] parts[1] = Str("struct") -> Fragments("Struct", parts, 1, "req")
      [] parts[1] = Str("struct_variant") ->
           Fragments("StructVariant", parts, 2, "req")
      [] OTHER -> Err("UnknownType")

\* Type::from_str
from_str(s) ==
    IF ~starts_with(s, SCHEMA) THEN Err("UnknownSchema")
    ELSE from_parts(split(SubSeq(s, Len(SCHEMA) + 1, Len(s)), "/"))

(***************************************************************************)
(* Base64 (the base64 crate, as configured by writer.rs and de.rs).        *)
(***************************************************************************)
\* base64::CharacterSet::Standard
STANDARD == Str("ABCDEFGHIJKLMNOPQRSTUVWXYZabcdefghijklmnopqrstuvwxyz0123456789+/")

\* base64::CharacterSet::UrlSafe
URL_SAFE == Str("ABCDEFGHIJKLMNOPQRSTUVWXYZabcdefghijklmnopqrstuvwxyz0123456789-_")

RECURSIVE b64_encode(_, _)
\* Padded base64 of a byte sequence over the given alphabet: three bytes give
\* four symbols, a final group of one or two bytes is padded with "=".
b64_encode(buf, alphabet) ==
    IF buf = <<>> THEN <<>>
    ELSE IF Len(buf) = 1 THEN
        <<alphabet[(buf[1] \div 4) + 1], alphabet[((buf[1] % 4) * 16) + 1], "=", "=">>
    ELSE IF Len(buf) = 2 THEN
        <<alphabet[(buf[1] \div 4) + 1],
          alphabet[((buf[1] % 4) * 16 + (buf[2] \div 16)) + 1],
          alphabet[((buf[2] % 16) * 4) + 1], "=">>
    ELSE
        <<alphabet[(buf[1] \div 4) + 1],
          alphabet[((buf[1] % 4) * 16 + (buf[2] \div 16)) + 1],
          alphabet[((buf[2] % 16) * 4 + (buf[3] \div 64)) + 1],
          alphabet[(buf[3] % 64) + 1]>>
        \o b64_encode(SubSeq(buf, 4, Len(buf)), alphabet)

\* The 6-bit value of a symbol of the alphabet.
Sextet(c, alphabet) == (CHOOSE i \in 1..64 : alphabet[i] = c) - 1

InAlphabet(c, alphabet) == \E i \in 1..64 : alphabet[i] = c

RECURSIVE b64_decode_groups(_, _)
\* The bytes of a run of complete, already validated four-symbol groups.
b64_decode_groups(text, alphabet) ==
    IF text = <<>> THEN <<>>
    ELSE LET a == Sextet(text[1], alphabet)
             b == Sextet(text[2], alphabet)
             pad2 == text[3] = "="
             pad1 == text[4] = "="
             c == IF pad2 THEN 0 ELSE Sextet(text[3], alphabet)
             d == IF pad1 THEN 0 ELSE Sextet(text[4], alphabet)
             b1 == a * 4 + (b \div 16)
             b2 == (b % 16) * 16 + (c \div 4)
             b3 == (c % 4) * 64 + d
         IN  (IF pad2 THEN <<b1>> ELSE IF pad1 THEN <<b1, b2>> ELSE <<b1, b2, b3>>)
             \o b64_decode_groups(SubSeq(text, 5, Len(text)), alphabet)

\* base64::decode over the given alphabet.  Padding is optional: the text
\* is symbols of the alphabet followed by no "=" or by "=" in the third and
\* fourth place of the last group of four only.  A length of 4k + 1 (the
\* "=" counted), a symbol outside the alphabet, an "=" elsewhere, or
\* non-zero bits left over by the last symbol is a DecodeError.
b64_decode(text, alphabet) ==
    LET n == Len(text)
        m == IF \E i \in 1..n : text[i] = "="
             THEN (CHOOSE i \in 1..n : text[i] = "=" /\ \A j \in 1..(i - 1) : text[j] # "=") - 1
             ELSE n
        padsOk == \A i \in (m + 1)..n : text[i] = "=" /\ (i - 1) % 4 >= 2
        symsOk == \A i \in 1..m : InAlphabet(text[i], alphabet)
        bitsOk ==
            IF m % 4 = 2 THEN Sextet(text[m], alphabet) % 16 = 0
            ELSE IF m % 4 = 3 THEN Sextet(text[m], alphabet) % 4 = 0
            ELSE TRUE
        padded == SubSeq(text, 1, m)
                      \o (IF m % 4 = 2 THEN Str("==") ELSE IF m % 4 = 3 THEN Str("=") ELSE <<>>)
    IN  IF n % 4 = 1 \/ ~padsOk \/ ~symsOk THEN Err("B64DecodeError")
        ELSE IF ~bitsOk THEN Err("B64DecodeError")
        ELSE Ok(b64_decode_groups(padded, alphabet))

(***************************************************************************)
(* md/writer.rs: the Markdown list writer.  The sink is the text written   *)
(* so far; a write to it never fails (the tests write to a Vec<u8>).       *)
(* An operation that takes Option<&mut List> returns the list as updated.  *)
(***************************************************************************)
\* How many spaces do we indent with?
INDENT == 4

DottedNumber(n) == [kind |-> "DottedNumber", n |-> n]

Asterisk == [kind |-> "Asterisk", n |-> 0]

List(depth, bullet) == [depth |-> depth, bullet |-> bullet]

\* impl fmt::Display for Bullet
Bullet_fmt(b) == IF b.kind = "DottedNumber" THEN FmtUnsigned(b.n) \o <<".">> ELSE <<"*">>

\* advance that leaves the number of an ordered bullet as it is.
advance_stuck(b) == b

\* Bullet::advance
advance(b) == IF b.kind = "DottedNumber" THEN DottedNumber(b.n + 1) ELSE b

Spaces(n) == [i \in 1..n |-> " "]

\* EscapedFormatter::write_char
write_char(ch) == IF is_ascii_punctuation(ch) THEN <<"\\", ch>> ELSE <<ch>>

RECURSIVE write_str(_)
\* EscapedFormatter::write_str
write_str(s) == IF s = <<>> THEN <<>> ELSE write_char(Head(s)) \o write_str(Tail(s))

\* Writer::escaped
escaped(value) == write_str(value)

\* Writer::bullet: the indentation, the bullet and a space; the bullet advances.
bullet(out, list) ==
    IF list = None THEN [out |-> out, list |-> list]
    ELSE [out |-> out \o Spaces(INDENT * list[1].depth) \o Bullet_fmt(list[1].bullet) \o <<" ">>,
          list |-> Some(List(list[1].depth, advance(list[1].bullet)))]

\* The part Writer::ordered_list and Writer::unordered_list share: the
\* parent's opener line, and the depth of the new list.
open_list(out, parent, first) ==
    LET b == bullet(out, parent)
    IN  [out |-> IF parent = None THEN out ELSE b.out \o <<"\n">>,
         parent |-> b.list,
         list |-> List(IF parent = None THEN 0 ELSE parent[1].depth + 1, first)]

\* Writer::ordered_list
Writer_ordered_list(out, parent) == open_list(out, parent, DottedNumber(0))

\* Writer::unordered_list
Writer_unordered_list(out, parent) == open_list(out, parent, Asterisk)

\* Writer::link
link(out, list, text, uri) ==
    LET b == bullet(out, list)
    IN  [out |-> b.out \o <<"[">> \o escaped(text) \o Str("](") \o uri \o Str(")\n"),
         list |-> b.list]

\* encoder.write(buf), whose count bytes_link drops: the bytes one call of
\* EncoderWriter::write takes.  Fewer than three bytes are all kept for
\* finish; of three or more the call takes the whole groups of three only,
\* and no more than fill its buffer of 1024 symbols.
encoder_write(buf) ==
    IF Len(buf) < 3 THEN buf
    ELSE SubSeq(buf, 1, IF Len(buf) - (Len(buf) % 3) < 768 THEN Len(buf) - (Len(buf) % 3) ELSE 768)

\* Writer::bytes_link
bytes_link(out, list, buf, uri) ==
    LET b == bullet(out, list)
    IN  [out |-> b.out \o <<"[">> \o b64_encode(encoder_write(buf), URL_SAFE)
                       \o Str("](") \o uri \o Str(")\n"),
         list |-> b.list]

(***************************************************************************)
(* md/reader.rs: the pull parser.  A Reader is the text not yet consumed   *)
(* (chars), the indentation of every open list (indents) and the state.    *)
(* A call of next returns Some(item), None, or panics (a failed assert_eq! *)
(* or unreachable!): ret is "Some", "None" or "panic".                     *)
(***************************************************************************)
BeforeItem == [tag |-> "BeforeItem", depth |-> 0]

InItem(d) == [tag |-> "InItem", depth |-> d]

EOF == [tag |-> "EOF", depth |-> 0]

Item(t, text, uri) == [t |-> t, text |-> text, uri |-> uri]

Link(text, uri) == Item("Link", text, uri)

PushOrderedList == Item("PushOrderedList", <<>>, <<>>)

PushUnorderedList == Item("PushUnorderedList", <<>>, <<>>)

PopList == Item("PopList", <<>>, <<>>)

\* Reader::new
Reader_new(text) == [chars |-> text, indents |-> <<>>, state |-> BeforeItem]

\* Position of the first occurrence of needle in s, 0 if there is none.
Find(s, needle) ==
    IF \E i \in 1..Len(s) : s[i] = needle
    THEN CHOOSE i \in 1..Len(s) : s[i] = needle /\ \A j \in 1..(i - 1) : s[j] # needle
    ELSE 0

\* Reader::take_chars_until: the text before the needle, and the rest after
\* it; when the needle is missing the search has consumed everything.
take_chars_until(chars, needle) ==
    LET i == Find(chars, needle)
    IN  IF i = 0 THEN [found |-> FALSE, text |-> <<>>, rest |-> <<>>]
        ELSE [found |-> TRUE, text |-> SubSeq(chars, 1, i - 1),
              rest |-> SubSeq(chars, i + 1, Len(chars))]

\* Reader::next_depth: the number of leading spaces.
next_depth(chars) ==
    IF \E i \in 1..Len(chars) : chars[i] # " "
    THEN (CHOOSE i \in 1..Len(chars) : chars[i] # " " /\ \A j \in 1..(i - 1) : chars[j] = " ") - 1
    ELSE Len(chars)

\* skip_while(is_ascii_digit): the text from its first non-digit on.
skip_digits(chars) ==
    IF \E i \in 1..Len(chars) : ~is_ascii_digit(chars[i])
    THEN SubSeq(chars,
                CHOOSE i \in 1..Len(chars) :
                    ~is_ascii_digit(chars[i]) /\ \A j \in 1..(i - 1) : is_ascii_digit(chars[j]),
                Len(chars))
    ELSE <<>>

Last(s) == s[Len(s)]

Front(s) == SubSeq(s, 1, Len(s) - 1)

\* An item that the caller is not handed.
Yield_lost(rd, item) == [rd |-> rd, ret |-> "None", item |-> item]

Yield(rd, item) == [rd |-> rd, ret |-> "Some", item |-> item]

Exhausted(rd) == [rd |-> rd, ret |-> "None", item |-> PopList]

\* A violation reported as the end of the sequence.
Panic_quiet(rd) == [rd |-> rd, ret |-> "None", item |-> PopList]

Panic(rd) == [rd |-> rd, ret |-> "panic", item |-> PopList]

\* The '[' branch of Reader::next, entered with the '[' consumed.
read_link(rd, chars) ==
    LET text == take_chars_until(chars, "]")
        uri == take_chars_until(Tail(text.rest), ")")
        eol == take_chars_until(uri.rest, "\n")
    IN  IF ~text.found THEN Exhausted([rd EXCEPT !.chars = <<>>])
        ELSE IF text.rest = <<>> THEN Exhausted([rd EXCEPT !.chars = <<>>])
        ELSE IF Head(text.rest) # "(" THEN Exhausted([rd EXCEPT !.chars = Tail(text.rest)])
        ELSE IF ~uri.found THEN Exhausted([rd EXCEPT !.chars = <<>>])
        ELSE IF ~eol.found THEN Exhausted([rd EXCEPT !.chars = <<>>])
        ELSE Yield([rd EXCEPT !.chars = eol.rest, !.state = BeforeItem],
                   Link(text.text, uri.text))

\* The bullet branch opening a list also for an item that is indented as
\* the innermost list is.
read_bullet_level(rd, ch, chars) ==
    LET d == rd.state.depth
        afterDigits == IF ch = "*" THEN chars ELSE skip_digits(chars)
        dotOk == ch = "*" \/ (afterDigits # <<>> /\ Head(afterDigits) = ".")
        afterDot == IF ch = "*" THEN chars ELSE Tail(afterDigits)
        spaceOk == afterDot # <<>> /\ Head(afterDot) = " "
        body == Tail(afterDot)
        seen == IF ~dotOk THEN afterDigits ELSE afterDot
    IN  IF ~dotOk \/ ~spaceOk
        THEN [cont |-> FALSE,
              res |-> Panic([rd EXCEPT !.chars = IF seen = <<>> THEN <<>> ELSE Tail(seen)])]
        ELSE IF rd.indents = <<>> \/ d >= Last(rd.indents)
        THEN [cont |-> FALSE,
              res |-> Yield([rd EXCEPT !.chars = body, !.indents = Append(rd.indents, d)],
                            IF ch = "*" THEN PushUnorderedList ELSE PushOrderedList)]
        ELSE [cont |-> TRUE, res |-> Exhausted([rd EXCEPT !.chars = body])]

\* The bullet branch of Reader::next, entered with the first bullet
\* character ch consumed: the rest of a number and its dot, the space, and
\* the new list if the item is indented deeper than the innermost list.
\* A bullet of an already open list leaves the Reader in InItem: cont.
\* A failed assertion has consumed the character it compared (seen).
read_bullet(rd, ch, chars) ==
    LET d == rd.state.depth
        afterDigits == IF ch = "*" THEN chars ELSE skip_digits(chars)
        dotOk == ch = "*" \/ (afterDigits # <<>> /\ Head(afterDigits) = ".")
        afterDot == IF ch = "*" THEN chars ELSE Tail(afterDigits)
        spaceOk == afterDot # <<>> /\ Head(afterDot) = " "
        body == Tail(afterDot)
        seen == IF ~dotOk THEN afterDigits ELSE afterDot
    IN  IF ~dotOk \/ ~spaceOk
        THEN [cont |-> FALSE,
              res |-> Panic([rd EXCEPT !.chars = IF seen = <<>> THEN <<>> ELSE Tail(seen)])]
        ELSE IF rd.indents = <<>> \/ d > Last(rd.indents)
        THEN [cont |-> FALSE,
              res |-> Yield([rd EXCEPT !.chars = body, !.indents = Append(rd.indents, d)],
                            IF ch = "*" THEN PushUnorderedList ELSE PushOrderedList)]
        ELSE [cont |-> TRUE, res |-> Exhausted([rd EXCEPT !.chars = body])]

\* The dedent test with <= in place of <.
dedented_or_level(rd) == rd.indents # <<>> /\ rd.state.depth <= Last(rd.indents)

\* "If we've dedented": the item is indented less than the innermost open list.
dedented(rd) == rd.indents # <<>> /\ rd.state.depth < Last(rd.indents)

RECURSIVE Reader_next(_)
\* impl Iterator for Reader: next
Reader_next(rd) ==
    CASE rd.state.tag = "BeforeItem" ->
           LET d == next_depth(rd.chars)
           IN  Reader_next([rd EXCEPT !.chars = SubSeq(rd.chars, d + 1, Len(rd.chars)),
                                      !.state = InItem(d)])
      [] rd.state.tag = "InItem" ->
           IF dedented(rd)
           THEN Yield([rd EXCEPT !.indents = Front(rd.indents)], PopList)
           ELSE IF rd.chars = <<>> THEN Reader_next([rd EXCEPT !.state = EOF])
           ELSE LET ch == Head(rd.chars)
                    rest == Tail(rd.chars)
                IN  IF is_ascii_digit(ch) \/ ch = "*"
                    THEN LET b == read_bullet(rd, ch, rest)
                         IN  IF b.cont THEN Reader_next(b.res.rd) ELSE b.res
                    ELSE IF ch = "\n"
                    THEN Reader_next([rd EXCEPT !.chars = rest, !.state = BeforeItem])
                    ELSE IF ch = "["
                    THEN read_link(rd, rest)
                    ELSE Panic([rd EXCEPT !.chars = rest])
      [] rd.state.tag = "EOF" ->
           IF rd.indents # <<>>
           THEN Yield([rd EXCEPT !.indents = Front(rd.indents)], PopList)
           ELSE Exhausted(rd)

(***************************************************************************)
(* Values of the serde data model, one shape per Serializer method.        *)
(* k names the shape; name and variant are Some(text) where the shape      *)
(* carries them; v is the payload: a boolean, an integer, a character, a   *)
(* text, a byte sequence, an Option of a value (Option), a value           *)
(* (newtypes), a sequence of values (Seq and tuples), or a sequence of     *)
(* <<key, value>> pairs (Map and structs).  len is the length handed to    *)
(* serialize_seq / serialize_map: None when the caller does not know it.   *)
(***************************************************************************)
V(k, name, variant, len, v) ==
    [k |-> k, name |-> name, variant |-> variant, len |-> len, v |-> v]

Prim(k, v) == V(k, None, None, None, v)

Unit == Prim("Unit", <<>>)

OptNone == Prim("Option", None)

OptSome(x) == Prim("Option", Some(x))

String(s) == Prim("String", s)

SeqOf(xs) == V("Seq", None, None, Some(Num(Len(xs))), xs)

MapOf(ps) == V("Map", None, None, Some(Num(Len(ps))), ps)

\* serde_value::Value::Newtype serializes as a newtype struct named "".
Newtype(x) == V("NewtypeStruct", Some(<<>>), None, None, x)

Struct(name, fields) == V("Struct", Some(name), None, Some(Num(Len(fields))), fields)

(***************************************************************************)
(* Floating-point numbers.  A float is held exactly: its class (finite,    *)
(* inf, nan), its sign, and for a finite one the natural number m (a run   *)
(* of decimal digit values) and the binary exponent e with value m * 2^e,  *)
(* m odd; zero is m = 0, e = 0.  The arithmetic below is on runs of digit  *)
(* values, most significant first; a run made digit by digit is joined to  *)
(* the empty run, which makes it a sequence held in full.                  *)
(***************************************************************************)
FloatKinds == {"F32", "F64"}

\* The significand's width in bits (f32::MANTISSA_DIGITS, f64::MANTISSA_DIGITS).
Prec(k) == IF k = "F32" THEN 24 ELSE 53

\* The least binary exponent of the last place: that of the subnormals.
MinExp(k) == IF k = "F32" THEN -149 ELSE -1074

\* The greatest binary exponent of the last place: that of f32::MAX, f64::MAX.
MaxExp(k) == IF k = "F32" THEN 104 ELSE 971

Flt(class, neg, m, e) == [class |-> class, neg |-> neg, m |-> m, e |-> e]

Zeros(n) == [i \in 1..n |-> 0]

\* a + 1: the digits after the last one that is not 9 become 0.
BigInc(a) ==
    IF \A i \in 1..Len(a) : a[i] = 9 THEN <<1>> \o Zeros(Len(a))
    ELSE LET at(p) ==
                 <<>> \o [i \in 1..Len(a) |-> IF i < p THEN a[i] ELSE IF i = p THEN a[i] + 1 ELSE 0]
         IN  at(CHOOSE p \in 1..Len(a) : a[p] # 9 /\ \A j \in (p + 1)..Len(a) : a[j] = 9)

\* a - b for a >= b: a digit lends to the digits after it when the first
\* place after it where the two numbers differ has the smaller digit in a.
BigSub(a, b) ==
    LET n == Len(a)
        sub(i) == IF i > n - Len(b) THEN b[i - (n - Len(b))] ELSE 0
        lent(i) == \E j \in (i + 1)..n :
                       a[j] < sub(j) /\ \A t \in (i + 1)..(j - 1) : a[t] = sub(t)
    IN  StripZeros(<<>> \o [i \in 1..n |->
                                (a[i] - sub(i) - (IF lent(i) THEN 1 ELSE 0) + 10) % 10])

\* 2 * a: a digit takes a carry when the digit after it is 5 or more.
BigDouble(a) ==
    LET n == Len(a)
        low == [i \in 1..n |-> (2 * a[i] + (IF i < n /\ a[i + 1] >= 5 THEN 1 ELSE 0)) % 10]
    IN  (IF a[1] >= 5 THEN <<1>> ELSE <<>>) \o low

\* floor(a / 2): a digit takes ten from an odd digit before it.
BigHalf(a) ==
    StripZeros(<<>> \o [i \in 1..Len(a) |->
                            (a[i] + (IF i > 1 /\ a[i - 1] % 2 = 1 THEN 10 ELSE 0)) \div 2])

\* The run ds widened to w digits by leading zeros.
Pad(ds, w) == Zeros(w - Len(ds)) \o ds

\* a + s for s below 10^6: the sum of s and the last seven digits of a, whose
\* carry goes into the digits before them.
BigPlus(a, s) ==
    LET n == Len(a)
        sum == MagValue(SubSeq(a, n - 6, n), 0) + s
        front == SubSeq(a, 1, n - 7)
    IN  IF n <= 7 THEN Digits(MagValue(a, 0) + s)
        ELSE (IF sum >= 10000000 THEN BigInc(front) ELSE front) \o Pad(Digits(sum % 10000000), 7)

RECURSIVE BigTimes(_, _)
\* a * c for c up to 2^17: four digits at a time, a longer run by halves, the
\* digits the low half's product has beyond its width added to the high
\* half's product.
BigTimes(a, c) ==
    LET h == Len(a) \div 2
        join(hi, lo) ==
            IF Len(lo) <= h THEN StripZeros(hi \o Pad(lo, h))
            ELSE StripZeros(BigPlus(hi, MagValue(SubSeq(lo, 1, Len(lo) - h), 0))
                            \o SubSeq(lo, Len(lo) - h + 1, Len(lo)))
    IN  IF Len(a) <= 4 THEN Digits(MagValue(a, 0) * c)
        ELSE join(BigTimes(SubSeq(a, 1, Len(a) - h), c), BigTimes(SubSeq(a, Len(a) - h + 1, Len(a)), c))

RECURSIVE BigShift(_, _)
\* a * 2^n
BigShift(a, n) ==
    IF n <= 16 THEN BigTimes(a, 2 ^ n)
    ELSE BigShift(BigShift(a, n \div 2), n - (n \div 2))

RECURSIVE BigTimes5s(_, _)
\* a * 5^n
BigTimes5s(a, n) ==
    IF n <= 6 THEN BigTimes(a, 5 ^ n)
    ELSE BigTimes5s(BigTimes5s(a, n \div 2), n - (n \div 2))

RECURSIVE BigDivFrom(_, _, _)
\* Long division of n by d from the digit of weight 10^i down, for
\* n < d * 10^(i + 1): the digits of the quotient and the remainder.
BigDivFrom(n, d, i) ==
    LET below(t, rest) == [q |-> <<t>> \o rest.q, r |-> rest.r]
        digit(dd, t) == below(t, BigDivFrom(BigSub(n, BigTimes(dd, t)), d, i - 1))
        at(dd) ==
            digit(dd, CHOOSE t \in 0..9 :
                          /\ ~MagLess(n, BigTimes(dd, t))
                          /\ t = 9 \/ MagLess(n, BigTimes(dd, t + 1)))
    IN  IF i < 0 THEN [q |-> <<>>, r |-> n] ELSE at(d \o Zeros(i))

\* Quotient and remainder of n by d.
BigDiv(n, d) ==
    LET whole(h) == [q |-> StripZeros(h.q), r |-> h.r]
    IN  IF MagLess(n, d) THEN [q |-> <<0>>, r |-> n]
        ELSE whole(BigDivFrom(n, d, Len(n) - Len(d)))

RECURSIVE Climb(_, _, _)
\* The greatest j with d * 2^j <= n, plus k, for d <= n.
Climb(n, d, k) == IF MagLess(n, BigDouble(d)) THEN k ELSE Climb(n, BigDouble(d), k + 1)

\* floor(log2(n / d)) for positive n and d, sought upwards from a power of
\* two the ratio is surely above: the lengths of the two numbers place the
\* ratio above 10^(Len(n) - Len(d) - 1), and a decimal digit is at least
\* 3.321 and at most 3.322 bits.
Log2(n, d) ==
    LET from(lo) ==
            Climb(IF lo < 0 THEN BigShift(n, 0 - lo) ELSE n,
                  IF lo > 0 THEN BigShift(d, lo) ELSE d, lo)
    IN  from(((Len(n) - Len(d) - 1) * 3322) \div 1000 - 2)

RECURSIVE Canonical(_, _, _)
\* The finite float q * 2^e with the factors of two moved into the
\* exponent, eight at a time while the last eight digits are a multiple of
\* 256.
Canonical(neg, q, e) ==
    LET h4(x) == BigHalf(BigHalf(BigHalf(BigHalf(x))))
    IN  IF q = <<0>> THEN Flt("finite", neg, <<0>>, 0)
        ELSE IF MagValue(SubSeq(q, IF Len(q) > 8 THEN Len(q) - 7 ELSE 1, Len(q)), 0) % 256 = 0
        THEN Canonical(neg, h4(h4(q)), e + 8)
        ELSE IF q[Len(q)] % 2 = 0 THEN Canonical(neg, BigHalf(q), e + 1)
        ELSE Flt("finite", neg, q, e)

\* dec2flt, last step: the quotient q at exponent e as a float, infinite
\* when beyond the greatest finite float of kind k.
FloatFinish(k, neg, q, e) ==
    IF e > MaxExp(k) \/ (e = MaxExp(k) /\ q = BigShift(<<1>>, Prec(k)))
    THEN Flt("inf", neg, <<0>>, 0)
    ELSE Canonical(neg, q, e)

\* dec2flt: the quotient h.q of a division by den with rest h.r, rounded to
\* the nearest integer, ties to the even one.
FloatRounded(h, den) ==
    IF \/ MagLess(den, BigDouble(h.r))
       \/ BigDouble(h.r) = den /\ h.q[Len(h.q)] % 2 = 1
    THEN BigInc(h.q)
    ELSE h.q

\* dec2flt: num / den in units of 2^e, where num / den lies between 2^lead
\* and 2^(lead + 1); e is lead less the precision, or the least exponent.
FloatScale(k, neg, num, den, e) ==
    FloatFinish(k, neg,
                FloatRounded(BigDiv(IF e < 0 THEN BigShift(num, 0 - e) ELSE num,
                                    IF e > 0 THEN BigShift(den, e) ELSE den),
                             IF e > 0 THEN BigShift(den, e) ELSE den),
                e)

FloatPlace(k, neg, num, den, lead) ==
    FloatScale(k, neg, num, den,
               IF lead - (Prec(k) - 1) < MinExp(k) THEN MinExp(k) ELSE lead - (Prec(k) - 1))

\* dec2flt: the float of kind k nearest to digits * 10^x, ties to the even
\* significand, infinite when beyond the greatest finite float.
RoundFloat(k, neg, digits, x) ==
    IF digits = <<0>> THEN Flt("finite", neg, <<0>>, 0)
    ELSE FloatPlace(k, neg, digits \o Zeros(IF x > 0 THEN x ELSE 0),
                    <<1>> \o Zeros(IF x < 0 THEN 0 - x ELSE 0),
                    Log2(digits \o Zeros(IF x > 0 THEN x ELSE 0),
                         <<1>> \o Zeros(IF x < 0 THEN 0 - x ELSE 0)))

\* No float of kind k is finite from 10^DecMax(k) on, and none is nonzero
\* below 10^DecMin(k).
DecMax(k) == IF k = "F32" THEN 40 ELSE 310

DecMin(k) == IF k = "F32" THEN -50 ELSE -330

\* str::eq_ignore_ascii_case with a lower-case word
eq_ignore_case(text, word) ==
    /\ Len(text) = Len(word)
    /\ \A i \in 1..Len(text) :
          \/ text[i] = word[i]
          \/ \E j \in 34..59 : Ascii[j] = text[i] /\ Ascii[j + 32] = word[i]

\* str::find over a set of characters: the position of the first of the
\* characters cs in s, one past the end of s when there is none.
FirstOf(s, cs) ==
    IF \E i \in 1..Len(s) : s[i] \in cs
    THEN CHOOSE i \in 1..Len(s) : s[i] \in cs /\ \A j \in 1..(i - 1) : s[j] \notin cs
    ELSE Len(s) + 1

IsDigits(s) == \A i \in 1..Len(s) : is_ascii_digit(s[i])

\* dec2flt: the exponent part of a float literal; none stands for zero, an
\* exponent of more than six digits is out of every float's range.
FloatExponent(hasExp, minus, ds) ==
    IF ~hasExp THEN [ok |-> TRUE, huge |-> FALSE, v |-> 0]
    ELSE IF ds = <<>> \/ ~IsDigits(ds) THEN [ok |-> FALSE, huge |-> FALSE, v |-> 0]
    ELSE IF Len(NumOf(FALSE, ds).mag) > 6
    THEN [ok |-> TRUE, huge |-> TRUE, v |-> IF minus THEN -1 ELSE 1]
    ELSE [ok |-> TRUE, huge |-> FALSE,
          v |-> IF minus THEN 0 - MagValue(NumOf(FALSE, ds).mag, 0)
                ELSE MagValue(NumOf(FALSE, ds).mag, 0)]

\* dec2flt: the float of the significand digits at the decimal exponent x.
FloatNumber(k, neg, digits, x, huge) ==
    IF digits = <<0>> THEN Ok(Flt("finite", neg, <<0>>, 0))
    ELSE IF huge /\ x > 0 THEN Ok(Flt("inf", neg, <<0>>, 0))
    ELSE IF huge THEN Ok(Flt("finite", neg, <<0>>, 0))
    ELSE IF Len(digits) + x > DecMax(k) THEN Ok(Flt("inf", neg, <<0>>, 0))
    ELSE IF Len(digits) + x < DecMin(k) THEN Ok(Flt("finite", neg, <<0>>, 0))
    ELSE Ok(RoundFloat(k, neg, digits, x))

\* dec2flt: digits before and after the point, one of the two runs at least,
\* and the exponent ex.
FloatParts(k, neg, int, frac, ex) ==
    IF ~IsDigits(int) \/ ~IsDigits(frac) \/ int \o frac = <<>> \/ ~ex.ok
    THEN Err("ParseFloatError")
    ELSE FloatNumber(k, neg, NumOf(FALSE, int \o frac).mag,
                     IF ex.huge THEN ex.v ELSE ex.v - Len(frac), ex.huge)

\* dec2flt: the mantissa split at its point, the exponent at its sign.
FloatMantissa(k, neg, mant, hasExp, expo) ==
    FloatParts(k, neg,
               SubSeq(mant, 1, FirstOf(mant, {"."}) - 1),
               SubSeq(mant, FirstOf(mant, {"."}) + 1, Len(mant)),
               FloatExponent(hasExp, expo # <<>> /\ Head(expo) = "-",
                             IF expo # <<>> /\ Head(expo) \in {"+", "-"}
                             THEN Tail(expo) ELSE expo))

\* dec2flt: a literal without its sign: inf, infinity and nan in any case,
\* or a mantissa with an optional exponent after e or E.
FloatBody(k, neg, body) ==
    IF eq_ignore_case(body, Str("inf")) \/ eq_ignore_case(body, Str("infinity"))
    THEN Ok(Flt("inf", neg, <<0>>, 0))
    ELSE IF eq_ignore_case(body, Str("nan")) THEN Ok(Flt("nan", FALSE, <<0>>, 0))
    ELSE FloatMantissa(k, neg,
                       SubSeq(body, 1, FirstOf(body, {"e", "E"}) - 1),
                       FirstOf(body, {"e", "E"}) <= Len(body),
                       SubSeq(body, FirstOf(body, {"e", "E"}) + 1, Len(body)))

\* <f32 as FromStr>::from_str, <f64 as FromStr>::from_str: an optional
\* sign, then inf, infinity or nan in any case, or digits with an optional
\* point and at least one digit, then an optional exponent (e or E, an
\* optional sign, at least one digit); nothing else.
ParseFloat(text, k) ==
    FloatBody(k, text # <<>> /\ Head(text) = "-",
              IF text # <<>> /\ Head(text) \in {"+", "-"} THEN Tail(text) ELSE text)

RECURSIVE Shortest(_, _, _, _, _)
\* flt2dec's shortest strategy: the fewest leading digits of the number all,
\* n of them at first, that with or without one added to the last lie
\* between the bounds lo and hi (at them too when closed), the nearer to all
\* of the two; the digits and the count of places short of all's.
Shortest(all, lo, hi, closed, n) ==
    LET rest == SubSeq(all, n + 1, Len(all))
        within(c) ==
            IF closed THEN ~MagLess(c, lo) /\ ~MagLess(hi, c) ELSE MagLess(lo, c) /\ MagLess(c, hi)
        pick(down, up) ==
            IF within(up \o Zeros(Len(rest)))
               /\ \/ ~within(down \o Zeros(Len(rest)))
                  \/ MagLess(<<5>> \o Zeros(Len(rest) - 1), rest)
                  \/ rest = <<5>> \o Zeros(Len(rest) - 1) /\ down[n] % 2 = 1
            THEN [digits |-> up, x |-> Len(rest)]
            ELSE IF within(down \o Zeros(Len(rest))) THEN [digits |-> down, x |-> Len(rest)]
            ELSE Shortest(all, lo, hi, closed, n + 1)
    IN  IF n >= Len(all) THEN [digits |-> all, x |-> 0]
        ELSE pick(SubSeq(all, 1, n), BigInc(SubSeq(all, 1, n)))

\* The shortest digits that read back as the finite nonzero float f of kind
\* k, and the weight 10^x of the last of them.  f is q * 2^eq, q of Prec(k)
\* bits, or of fewer with eq = MinExp(k); every number nearer to f than to
\* the floats next to it reads back as f: those within half of 2^eq, or a
\* quarter below a power of two, the bounds included when q is even.  The
\* three numbers are taken in quarters of 2^eq and written in decimal.
ShortestDigits(f, k) ==
    LET decimal(s, v) == IF s >= 0 THEN BigShift(v, s) ELSE BigTimes5s(v, 0 - s)
        shown(d, s) == [digits |-> d.digits, x |-> d.x + (IF s < 0 THEN s ELSE 0)]
        among(v, eq, narrow, closed) ==
            shown(Shortest(decimal(eq - 2, v),
                           decimal(eq - 2, BigSub(v, IF narrow THEN <<1>> ELSE <<2>>)),
                           decimal(eq - 2, BigPlus(v, 2)), closed, 1),
                  eq - 2)
        quarters(eq) ==
            among(BigShift(f.m, f.e - eq + 2), eq, f.m = <<1>> /\ f.e = eq + Prec(k) - 1
                                                     /\ eq > MinExp(k), f.e > eq)
        placed(bits) ==
            quarters(IF f.e - (Prec(k) - bits) < MinExp(k) THEN MinExp(k)
                     ELSE f.e - (Prec(k) - bits))
    IN  placed(Log2(f.m, <<1>>) + 1)

\* A run of digits without its trailing zeros (one digit at least).
DropZeros(ds) ==
    IF \A i \in 1..Len(ds) : ds[i] = 0 THEN <<0>>
    ELSE SubSeq(ds, 1, CHOOSE i \in 1..Len(ds) : ds[i] # 0 /\ \A j \in (i + 1)..Len(ds) : ds[j] = 0)

\* Display of a float of kind k: NaN, inf, or the shortest digits that read
\* back as the same float, written out in full without an exponent.
FmtFloat(f, k) ==
    LET chars(ds) == [i \in 1..Len(ds) |-> DigitChars[ds[i] + 1]]
        sign == IF f.neg THEN <<"-">> ELSE <<>>
        \* the value is 0.ds * 10^point
        layout(ds, point) ==
            IF point <= 0 THEN Str("0.") \o chars(Zeros(0 - point) \o ds)
            ELSE IF point >= Len(ds) THEN chars(ds \o Zeros(point - Len(ds)))
            ELSE chars(SubSeq(ds, 1, point)) \o <<".">> \o chars(SubSeq(ds, point + 1, Len(ds)))
        shown(d) == layout(DropZeros(d.digits), Len(d.digits) + d.x)
    IN  IF f.class = "nan" THEN Str("NaN")
        ELSE IF f.class = "inf" THEN sign \o Str("inf")
        ELSE IF f.m = <<0>> THEN sign \o <<"0">>
        ELSE sign \o shown(ShortestDigits(f, k))

\* The float of kind k a literal denotes.
FloatOf(k, s) == ParseFloat(Str(s), k).val

\* The integer types serialize_int! is instantiated for; the two others of
\* its instances are FloatKinds.
IntKinds == {"I8", "I16", "I32", "I64", "U8", "U16", "U32", "U64"}

(***************************************************************************)
(* ser.rs: the Serializer.  Its state is the Writer's sink (out), the      *)
(* current list context (list) and the first error raised (err); once an   *)
(* error is raised every later step is skipped, as `?` returns early.      *)
(* calls is the history of the calls of value.serialize that have          *)
(* returned, nested ones included, in the order of their return: the       *)
(* current list at the call (before) and at the return (after), and        *)
(* whether the call returned Ok.                                           *)
(***************************************************************************)
\* Serializer::new
Serializer_new == [out |-> <<>>, list |-> None, err |-> None, calls |-> <<>>]

\* The return of a call of value.serialize that was made with the current
\* list before and leaves the Serializer s.
call_returned(before, s) ==
    [s EXCEPT !.calls = Append(@, [before |-> before, after |-> s.list, ok |-> s.err = None])]

\* Serializer::ser_link
ser_link(s, text, uri) ==
    LET w == link(s.out, s.list, text, uri)
    IN  [s EXCEPT !.out = w.out, !.list = w.list]

\* The first three statements of ser_ordered_list, ser_seq and ser_map: take
\* the current list as the parent, open the sublist under it, make it
\* current and write the tag link.  The result carries the parent to restore.
open_composite(s, text, uri, ordered) ==
    LET o == IF ordered THEN Writer_ordered_list(s.out, s.list) ELSE Writer_unordered_list(s.out, s.list)
        s1 == [s EXCEPT !.out = o.out, !.list = Some(o.list)]
    IN  [ser |-> ser_link(s1, text, uri), parent |-> o.parent]

\* Serializer::ser_seq
ser_seq(s, text, uri) == open_composite(s, text, uri, TRUE)

\* Serializer::ser_map
ser_map(s, text, uri) == open_composite(s, text, uri, FALSE)

\* end that leaves the sublist as the current list.
end_keep(s, parent) == s

\* SublistSerializer::end and MapSerializer::end
end(s, parent) == IF s.err # None THEN s ELSE [s EXCEPT !.list = parent]

ColonColon == Str("::")

\* The tag link's text and URI of a sequence-like shape (serialize_seq,
\* serialize_tuple, serialize_tuple_struct, serialize_tuple_variant).
seq_tag(val) ==
    CASE val.k = "Seq" /\ val.len # None ->
           [text |-> Str("Seq of length ") \o FmtInt(val.len[1]),
            uri |-> Str("serde://seq/") \o FmtInt(val.len[1])]
      [] val.k = "Seq" /\ val.len = None ->
           [text |-> Str("Seq of unknown length"), uri |-> Str("serde://seq/")]
      [] val.k = "Tuple" ->
           [text |-> Str("Tuple of length ") \o FmtInt(val.len[1]),
            uri |-> Str("serde://tuple/") \o FmtInt(val.len[1])]
      [] val.k = "TupleStruct" ->
           [text |-> Str("Tuple struct ") \o val.name[1] \o Str(" of length ")
                       \o FmtInt(val.len[1]),
            uri |-> Str("serde://tuple_struct/") \o val.name[1] \o Slash
                       \o FmtInt(val.len[1])]
      [] val.k = "TupleVariant" ->
           [text |-> Str("Tuple variant ") \o val.name[1] \o ColonColon \o val.variant[1]
                       \o Str(" of length ") \o FmtInt(val.len[1]),
            uri |-> Str("serde://tuple_variant/") \o val.name[1] \o Slash \o val.variant[1]
                       \o Slash \o FmtInt(val.len[1])]

\* The tag link's text and URI of a map-like shape (serialize_map,
\* serialize_struct, serialize_struct_variant).
map_tag(val) ==
    CASE val.k = "Map" /\ val.len # None ->
           [text |-> Str("Map of length ") \o FmtInt(val.len[1]),
            uri |-> Str("serde://map/") \o FmtInt(val.len[1])]
      [] val.k = "Map" /\ val.len = None ->
           [text |-> Str("Map of unknown length"), uri |-> Str("serde://map")]
      [] val.k = "Struct" ->
           [text |-> Str("Struct ") \o val.name[1] \o Str(" of length ")
                       \o FmtInt(val.len[1]),
            uri |-> Str("serde://struct/") \o val.name[1] \o Slash \o FmtInt(val.len[1])]
      [] val.k = "StructVariant" ->
           [text |-> Str("Struct variant ") \o val.name[1] \o ColonColon \o val.variant[1]
                       \o Str(" of length ") \o FmtInt(val.len[1]),
            uri |-> Str("serde://struct_variant/") \o val.name[1] \o Slash \o val.variant[1]
                       \o Slash \o FmtInt(val.len[1])]

\* The tag link's text and URI of a single-child shape (serialize_some,
\* serialize_newtype_struct, serialize_newtype_variant).
wrapper_tag(val) ==
    CASE val.k = "Option" ->
           [text |-> Str("Some"), uri |-> Str("serde://option/some")]
      [] val.k = "NewtypeStruct" ->
           [text |-> val.name[1], uri |-> Str("serde://newtype_struct/") \o val.name[1]]
      [] val.k = "NewtypeVariant" ->
           [text |-> val.name[1] \o ColonColon \o val.variant[1],
            uri |-> Str("serde://newtype_variant/") \o val.name[1] \o Slash \o val.variant[1]]

\* serialize_int!: the lower-case type name the macro pastes into the URI.
int_uri(k) ==
    CASE k = "I8" -> Str("serde://i8")
      [] k = "I16" -> Str("serde://i16")
      [] k = "I32" -> Str("serde://i32")
      [] k = "I64" -> Str("serde://i64")
      [] k = "U8" -> Str("serde://u8")
      [] k = "U16" -> Str("serde://u16")
      [] k = "U32" -> Str("serde://u32")
      [] k = "U64" -> Str("serde://u64")
      [] k = "F32" -> Str("serde://f32")
      [] k = "F64" -> Str("serde://f64")

\* The text and URI of the one link a leaf shape writes: serialize_bool, the
\* serialize_int! methods, serialize_char, serialize_str, serialize_none,
\* serialize_unit, serialize_unit_struct, serialize_unit_variant.
leaf_link(val) ==
    CASE val.k = "Bool" ->
           [text |-> IF val.v THEN Str("true") ELSE Str("false"), uri |-> Str("serde://bool")]
      [] val.k \in IntKinds -> [text |-> FmtInt(val.v), uri |-> int_uri(val.k)]
      [] val.k \in FloatKinds -> [text |-> FmtFloat(val.v, val.k), uri |-> int_uri(val.k)]
      [] val.k = "Char" -> [text |-> <<val.v>>, uri |-> Str("serde://char")]
      [] val.k = "String" -> [text |-> val.v, uri |-> Str("serde://string")]
      [] val.k = "Option" -> [text |-> Str("None"), uri |-> Str("serde://option/none")]
      [] val.k = "Unit" -> [text |-> Str("()"), uri |-> Str("serde://unit")]
      [] val.k = "UnitStruct" ->
           [text |-> Str("name"), uri |-> Str("serde://unit_struct/") \o val.name[1]]
      [] val.k = "UnitVariant" ->
           [text |-> val.name[1] \o ColonColon \o val.variant[1],
            uri |-> Str("serde://unit_variant/") \o val.name[1] \o Slash \o val.variant[1]]

LeafKinds ==
    {"Bool", "Char", "String", "Unit", "UnitStruct", "UnitVariant"} \cup IntKinds \cup FloatKinds

WrapperKinds == {"NewtypeStruct", "NewtypeVariant"}

SeqKinds == {"Seq", "Tuple", "TupleStruct", "TupleVariant"}

MapKinds == {"Map", "Struct", "StructVariant"}

\* open_pair opening the pair list as an unordered list.
open_pair_unordered(s) ==
    LET o == Writer_unordered_list(s.out, s.list)
    IN  [ser |-> [s EXCEPT !.out = o.out, !.list = Some(o.list)], map |-> o.parent]

\* MapSerializer::serialize_key up to the key's own serialization: the pair
\* list is opened under the current list, which is kept in map.
open_pair(s) ==
    LET o == Writer_ordered_list(s.out, s.list)
    IN  [ser |-> [s EXCEPT !.out = o.out, !.list = Some(o.list)], map |-> o.parent]

RECURSIVE serialize(_, _)
RECURSIVE serialize_shape(_, _)
RECURSIVE serialize_elements(_, _)
RECURSIVE serialize_entries(_, _)
\* value.serialize(&mut serializer): the Serializer method of the value's
\* shape, with everything it calls.
serialize(s, val) ==
    IF s.err # None THEN s ELSE call_returned(s.list, serialize_shape(s, val))

\* impl ser::Serializer for &mut Serializer: the method of the shape of val.
serialize_shape(s, val) ==
    IF s.err # None THEN s
    ELSE CASE val.k \in LeafKinds \/ (val.k = "Option" /\ val.v = None) ->
                LET put(l) == ser_link(s, l.text, l.uri) IN put(leaf_link(val))
           [] val.k = "Bytes" ->
                LET w == bytes_link(s.out, s.list, val.v, Str("serde://bytes"))
                IN  [s EXCEPT !.out = w.out, !.list = w.list]
           [] val.k \in {"I128", "U128"} ->
                \* not overridden: serde's default method returns Error::custom
                [s EXCEPT !.err = Some("CustomSerializeError")]
           [] val.k \in WrapperKinds \/ (val.k = "Option" /\ val.v # None) ->
                \* Serializer::ser_ordered_list
                LET t == wrapper_tag(val)
                    o == open_composite(s, t.text, t.uri, TRUE)
                    inner == IF val.k = "Option" THEN val.v[1] ELSE val.v
                IN  end(serialize(o.ser, inner), o.parent)
           [] val.k \in SeqKinds ->
                LET t == seq_tag(val)
                    o == ser_seq(s, t.text, t.uri)
                IN  end(serialize_elements(o.ser, val.v), o.parent)
           [] val.k \in MapKinds ->
                LET t == map_tag(val)
                    o == ser_map(s, t.text, t.uri)
                IN  end(serialize_entries(o.ser, val.v), o.parent)

\* SublistSerializer::serialize_element, for each element in order.
serialize_elements(s, xs) ==
    IF xs = <<>> \/ s.err # None THEN s
    ELSE serialize_elements(serialize(s, Head(xs)), Tail(xs))

\* MapSerializer::serialize_key then serialize_value (serialize_entry,
\* serialize_field), for each entry in order.
serialize_entries(s, ps) ==
    IF ps = <<>> \/ s.err # None THEN s
    ELSE LET p == open_pair(s)
             k == serialize(p.ser, Head(ps)[1])
             v == serialize(k, Head(ps)[2])
             restored == IF v.err # None THEN v ELSE [v EXCEPT !.list = p.map]
         IN  serialize_entries(restored, Tail(ps))

(***************************************************************************)
(* Primitive literals: <T as FromStr>::from_str as de.rs calls it through  *)
(* text.parse().                                                           *)
(***************************************************************************)
\* The range of each integer type.
IntRange(k) ==
    CASE k = "I8" -> [lo |-> Dec("-128"), hi |-> Dec("127")]
      [] k = "I16" -> [lo |-> Dec("-32768"), hi |-> Dec("32767")]
      [] k = "I32" -> [lo |-> Dec("-2147483648"), hi |-> Dec("2147483647")]
      [] k = "I64" -> [lo |-> Dec("-9223372036854775808"), hi |-> Dec("9223372036854775807")]
      [] k = "I128" -> [lo |-> Dec("-170141183460469231731687303715884105728"),
                        hi |-> Dec("170141183460469231731687303715884105727")]
      [] k = "U8" -> [lo |-> Dec("0"), hi |-> Dec("255")]
      [] k = "U16" -> [lo |-> Dec("0"), hi |-> Dec("65535")]
      [] k = "U32" -> [lo |-> Dec("0"), hi |-> Dec("4294967295")]
      [] k = "U64" -> [lo |-> Dec("0"), hi |-> Dec("18446744073709551615")]
      [] k = "U128" -> [lo |-> Dec("0"), hi |-> Dec("340282366920938463463374607431768211455")]

\* text.parse::<bool>()
ParseBool(text) ==
    IF text = Str("true") THEN Ok(TRUE)
    ELSE IF text = Str("false") THEN Ok(FALSE)
    ELSE Err("ParseBoolError")

\* text.parse::<char>(): exactly one character.
ParseChar(text) == IF Len(text) = 1 THEN Ok(text[1]) ELSE Err("ParseCharError")

(***************************************************************************)
(* The type a document is deserialized into, T::deserialize.  Every        *)
(* deserialize_* method of the Deserializer forwards to deserialize_any,   *)
(* so the type matters only through its Visitor:                           *)
(*   Value       serde_value::Value, the type of the tests in lib.rs; its  *)
(*               visitor accepts every visit but visit_enum;               *)
(*   Ignored     serde's IgnoredAny, into which a derived struct reads the *)
(*               value of a key that names none of its fields;             *)
(*   Int(k)      an integer type, accepting any integer visit in range;    *)
(*   Field(ns)   the field identifier of a derived struct, or the variant  *)
(*               identifier of a derived enum;                             *)
(*   StructOf    a derived struct: visit_map and visit_seq only;           *)
(*   Tuple       a tuple (T1, .., Tn): visit_seq only, of fixed arity;     *)
(*   Option      Option<T>: visit_none, visit_unit and visit_some;         *)
(*   Newtype     a derived newtype struct: visit_newtype_struct, visit_seq;*)
(*   Enum        a derived enum: visit_enum only;                          *)
(*   Unit        the unit type: visit_unit only;                           *)
(*   UnitStruct  a derived unit struct: visit_unit only.                   *)
(* fields is a sequence of <<name, type>>: the fields of a struct, the     *)
(* elements of a tuple (unnamed), the content of an Option or a newtype,   *)
(* the variants of an enum, each with the declaration of its content (Unit *)
(* for a unit variant, Newtype, Tuple or Struct).                          *)
(* A visit the visitor does not implement is serde's default method, an    *)
(* invalid-type error raised through Error::custom.                        *)
(***************************************************************************)
Target(t, k, name, fields) == [t |-> t, k |-> k, name |-> name, fields |-> fields]

ValueT == Target("Value", "", <<>>, <<>>)

IgnoredT == Target("Ignored", "", <<>>, <<>>)

\* serde::de::IgnoredAny, the one value of its type.
IgnoredAny == Prim("IgnoredAny", <<>>)

IntT(k) == Target("Int", k, <<>>, <<>>)

\* fields: a sequence of <<field name, field type>>
StructT(name, fields) == Target("Struct", "", name, fields)

FieldT(fields) == Target("Field", "", <<>>, fields)

UnitT == Target("Unit", "", <<>>, <<>>)

UnitStructT(name) == Target("UnitStruct", "", name, <<>>)

\* elems: the sequence of the element types
TupleT(elems) == Target("Tuple", "", <<>>, [i \in 1..Len(elems) |-> <<(<<>>), elems[i]>>])

OptionT(inner) == Target("Option", "", <<>>, << <<(<<>>), inner>> >>)

NewtypeT(name, inner) == Target("Newtype", "", name, << <<(<<>>), inner>> >>)

\* variants: a sequence of <<variant name, declaration of its content>>
EnumT(name, variants) == Target("Enum", "", name, variants)

Custom == Err("CustomDeserializeError")

FieldIndex(fields, text) ==
    IF \E i \in 1..Len(fields) : fields[i][1] = text
    THEN CHOOSE i \in 1..Len(fields) : fields[i][1] = text
    ELSE 0

\* A value of a unit struct, as serialize_unit_struct receives it.
UnitStruct(name) == V("UnitStruct", Some(name), None, None, <<>>)

\* The field a derived field identifier makes of an index (visit_u64): the
\* field at that position, or none (0, the ignored field).
FieldAt(fields, x) ==
    IF Len(x.mag) <= 9 /\ MagValue(x.mag, 0) < Len(fields) THEN MagValue(x.mag, 0) + 1 ELSE 0

\* The field a derived field identifier makes of a byte string (visit_bytes):
\* the field whose name has these bytes, or none.
FieldOfBytes(fields, bytes) ==
    IF \E i \in 1..Len(fields) : as_bytes(fields[i][1]) = bytes
    THEN CHOOSE i \in 1..Len(fields) : as_bytes(fields[i][1]) = bytes
    ELSE 0

\* Visitor::visit_bool, visit_i8 .. visit_u128, visit_f32, visit_f64,
\* visit_char, visit_borrowed_str, visit_byte_buf, visit_none, visit_unit:
\* the value the target's visitor makes of a leaf of the given Type kind.
\* An integer type takes every integer visit of up to 64 bits whose value is
\* in its range, i128 and u128 the 128-bit visits as well; a field
\* identifier implements visit_u64 (to which the narrower unsigned visits
\* forward), visit_str (to which visit_char forwards) and visit_bytes;
\* IgnoredAny takes every visit of a leaf.
visit_leaf(T, kind, payload) ==
    CASE T.t = "Value" ->
           IF kind \in {"I128", "U128"} THEN Custom
           ELSE Ok(CASE kind = "None" -> OptNone
                     [] kind = "Unit" -> Unit
                     [] OTHER -> Prim(kind, payload))
      [] T.t = "Ignored" -> Ok(IgnoredAny)
      [] T.t = "Int" ->
           LET within(r) == NumLeq(r.lo, payload) /\ NumLeq(payload, r.hi)
           IN  IF /\ \/ kind \in IntKinds
                     \/ kind \in {"I128", "U128"} /\ T.k \in {"I128", "U128"}
                  /\ within(IntRange(T.k))
               THEN Ok(Prim(T.k, payload))
               ELSE Custom
      [] T.t = "Field" ->
           IF kind = "String" THEN Ok(FieldIndex(T.fields, payload))
           ELSE IF kind = "Char" THEN Ok(FieldIndex(T.fields, <<payload>>))
           ELSE IF kind \in {"U8", "U16", "U32", "U64"} THEN Ok(FieldAt(T.fields, payload))
           ELSE IF kind = "Bytes" THEN Ok(FieldOfBytes(T.fields, payload))
           ELSE Custom
      [] T.t = "Option" -> IF kind \in {"None", "Unit"} THEN Ok(OptNone) ELSE Custom
      [] T.t = "Unit" -> IF kind = "Unit" THEN Ok(Unit) ELSE Custom
      [] T.t = "UnitStruct" -> IF kind = "Unit" THEN Ok(UnitStruct(T.name)) ELSE Custom
      [] OTHER -> Custom

\* A value of a unit variant, as serialize_unit_variant receives it.
UnitVariant(name, variant) == V("UnitVariant", Some(name), Some(variant), None, <<>>)

\* Visitor::visit_enum of a derived enum handed variant.into_deserializer():
\* the variant is looked up by name, and only a unit variant can be made of
\* an access that holds no content.
visit_unit_variant(T, variant) ==
    IF T.t # "Enum" \/ FieldIndex(T.fields, variant) = 0 THEN Custom
    ELSE IF T.fields[FieldIndex(T.fields, variant)][2].t = "Unit"
    THEN Ok(UnitVariant(T.name, variant))
    ELSE Custom

\* The type a visitor deserializes out of the content handed to visit_some
\* or visit_newtype_struct; None when it does not implement the visit.
wrapper_inner(T, kind) ==
    CASE T.t = "Value" -> Some(ValueT)
      [] T.t = "Ignored" -> Some(IgnoredT)
      [] T.t = "Option" /\ kind = "Some" -> Some(T.fields[1][2])
      [] T.t = "Newtype" /\ kind = "NewtypeStruct" -> Some(T.fields[1][2])
      [] OTHER -> None

\* The value visit_some or visit_newtype_struct makes of the content x.
wrapper_value(T, kind, x) ==
    CASE T.t = "Ignored" -> IgnoredAny
      [] kind = "Some" -> OptSome(x)
      [] T.t = "Value" -> Newtype(x)
      [] OTHER -> V("NewtypeStruct", Some(T.name), None, None, x)

\* The value a fixed-arity visit_seq makes of its elements.
tuple_value(T, acc) ==
    IF T.t = "Newtype" THEN V("NewtypeStruct", Some(T.name), None, None, acc[1])
    ELSE V("Tuple", None, None, Some(Num(Len(acc))), acc)

\* The value visit_enum makes of the content r of a variant declared as D.
variant_value(T, variant, D, x) ==
    CASE D.t = "Newtype" -> V("NewtypeVariant", Some(T.name), Some(variant), None, x)
      [] D.t = "Tuple" -> V("TupleVariant", Some(T.name), Some(variant), x.len, x.v)
      [] D.t = "Struct" -> V("StructVariant", Some(T.name), Some(variant), x.len, x.v)

(***************************************************************************)
(* de.rs: the Deserializer, a Peekable<Reader>.  peeked holds the result   *)
(* of a next() made by peek and not yet taken.  Every operation returns    *)
(* the Deserializer as it leaves it and a result: Ok(value), Err(kind), or *)
(* Err("panic") for a failed assert_eq!, an unreachable! or a panic of     *)
(* the Reader.                                                             *)
(***************************************************************************)
\* Deserializer::new
Deserializer_new(text) == [rd |-> Reader_new(text), peeked |-> None]

R(de, res) == [de |-> de, res |-> res]

PANIC == Err("panic")

\* Peekable::next
pk_next(de) ==
    IF de.peeked # None
    THEN [de |-> [de EXCEPT !.peeked = None],
          ret |-> de.peeked[1].ret, item |-> de.peeked[1].item]
    ELSE LET taken(r) == [de |-> [de EXCEPT !.rd = r.rd], ret |-> r.ret, item |-> r.item]
         IN  taken(Reader_next(de.rd))

\* Peekable::peek
pk_peek(de) ==
    IF de.peeked # None
    THEN [de |-> de, ret |-> de.peeked[1].ret, item |-> de.peeked[1].item]
    ELSE LET kept(r) ==
                 [de |-> [rd |-> r.rd, peeked |-> Some([ret |-> r.ret, item |-> r.item])],
                  ret |-> r.ret, item |-> r.item]
         IN  kept(Reader_next(de.rd))

\* assert_eq!(self.reader.next(), Some(Item::PopList)); Ok(value)
expect_pop(de, value) ==
    LET check(n) ==
            IF n.ret = "Some" /\ n.item = PopList THEN R(n.de, Ok(value)) ELSE R(n.de, PANIC)
    IN  check(pk_next(de))

\* The parsed payload of a leaf whose tag is one of the literal kinds.
parse_leaf(kind, text) ==
    CASE kind = "Bool" -> ParseBool(text)
      [] kind \in IntKinds \cup {"I128", "U128"} ->
           LET within(r) == ParseInt(text, r.lo, r.hi) IN within(IntRange(kind))
      [] kind \in FloatKinds -> ParseFloat(text, kind)
      [] kind = "Char" -> ParseChar(text)
      [] kind = "String" -> Ok(text)
      \* Deserializer::bytes
      [] kind = "Bytes" -> b64_decode(text, STANDARD)
      [] OTHER -> Ok(<<>>)

\* visitor.visit_*(text.parse()?): the visit of the parsed payload p, or the
\* error of the parse.
visit_parsed(de, T, kind, p) ==
    IF ~p.ok THEN R(de, p) ELSE R(de, visit_leaf(T, kind, p.val))

\* Deserializer::primitive, the match on the parsed tag ty.
primitive_of(de, text, T, ty) ==
    IF ~ty.ok THEN R(de, ty)
    \* visitor.visit_enum(variant.into_deserializer())
    ELSE IF ty.val.kind = "UnitVariant"
    THEN R(de, visit_unit_variant(T, ty.val.variant[1]))
    ELSE IF ty.val.kind \in {"Bool", "Char", "String", "Bytes", "F32", "F64", "I128", "U128"}
                             \cup IntKinds
    THEN visit_parsed(de, T, ty.val.kind, parse_leaf(ty.val.kind, text))
    ELSE IF ty.val.kind \in {"None", "Unit", "UnitStruct"}
    THEN visit_parsed(de, T, IF ty.val.kind = "None" THEN "None" ELSE "Unit", Ok(<<>>))
    ELSE R(de, PANIC)

\* Deserializer::primitive
primitive(de, text, uri, T) == primitive_of(de, text, T, from_str(uri))

\* The tag of a composite: the first statement of ordered_list and of
\* unordered_list.
tag_of(n) ==
    IF n.ret = "panic" THEN R(n.de, PANIC)
    ELSE IF n.ret = "None" THEN R(n.de, Err("UnexpectedEOF"))
    ELSE IF n.item.t # "Link" THEN R(n.de, PANIC)
    ELSE R(n.de, from_str(n.item.uri))

read_tag(de) == tag_of(pk_next(de))

\* Ok(value) of an accessor's deserialize becomes Ok(Some(value)).
map_Some(r) == IF r.res.ok THEN R(r.de, Ok(Some(r.res.val))) ELSE r

RECURSIVE deserialize_any(_, _)
RECURSIVE deserialize_item(_, _)
RECURSIVE ordered_list_of(_, _)
RECURSIVE unordered_list_of(_, _)
RECURSIVE Deserializer_ordered_list(_, _)
RECURSIVE Deserializer_unordered_list(_, _)
RECURSIVE next_element_seed(_, _)
RECURSIVE next_key_seed(_, _)
RECURSIVE next_value_seed(_, _)
RECURSIVE Value_visit_seq(_, _)
RECURSIVE Value_visit_map(_, _)
RECURSIVE IgnoredAny_visit_seq(_)
RECURSIVE IgnoredAny_visit_map(_)
RECURSIVE Struct_visit_seq(_, _, _, _)
RECURSIVE Struct_visit_map(_, _, _)
RECURSIVE Tuple_visit_seq(_, _, _, _)
RECURSIVE Enum_visit_enum(_, _, _)

\* deserialize_any, the match on the item n that self.reader.next() gave.
deserialize_item(n, T) ==
    LET at_end(m) == IF m.ret = "None" THEN R(m.de, Err("UnexpectedEOF")) ELSE R(m.de, PANIC)
    IN  IF n.ret = "panic" THEN R(n.de, PANIC)
        ELSE IF n.ret = "None" THEN R(n.de, Err("UnexpectedEOF"))
        ELSE CASE n.item.t = "PushOrderedList" -> Deserializer_ordered_list(n.de, T)
               [] n.item.t = "PushUnorderedList" -> Deserializer_unordered_list(n.de, T)
               [] n.item.t = "PopList" -> at_end(pk_next(n.de))
               [] n.item.t = "Link" -> primitive(n.de, n.item.text, n.item.uri, T)

\* impl de::Deserializer for &mut Deserializer: deserialize_any, to which
\* every other deserialize_* method forwards.
deserialize_any(de, T) == deserialize_item(pk_next(de), T)

\* SeqDeserializer::next_element_seed
next_element_seed(de, T) ==
    LET on(p) ==
            IF p.ret = "panic" THEN R(p.de, PANIC)
            ELSE IF p.ret = "Some" /\ p.item = PopList THEN R(pk_next(p.de).de, Ok(None))
            ELSE map_Some(deserialize_any(p.de, T))
    IN  on(pk_peek(de))

\* MapAccess::next_key_seed
next_key_seed(de, T) ==
    LET on(n) ==
            IF n.ret = "Some" /\ n.item = PushOrderedList
            THEN map_Some(deserialize_any(n.de, T))
            ELSE IF n.ret = "Some" /\ n.item = PopList THEN R(n.de, Ok(None))
            ELSE R(n.de, PANIC)
    IN  on(pk_next(de))

\* MapAccess::next_value_seed
next_value_seed(de, T) ==
    LET on(r) == IF r.res.ok THEN expect_pop(r.de, r.res.val) ELSE r
    IN  on(deserialize_any(de, T))

\* serde_value's ValueVisitor::visit_seq: elements are asked for until the
\* accessor answers None.
Value_visit_seq(de, acc) ==
    LET on(e) ==
            IF ~e.res.ok THEN e
            ELSE IF e.res.val = None THEN R(e.de, Ok(SeqOf(acc)))
            ELSE Value_visit_seq(e.de, Append(acc, e.res.val[1]))
    IN  on(next_element_seed(de, ValueT))

\* serde_value's Value::discriminant: the rank of a value's variant.
ValueOrder ==
    <<"Bool", "U8", "U16", "U32", "U64", "I8", "I16", "I32", "I64", "F32", "F64", "Char",
      "String", "Unit", "Option", "NewtypeStruct", "Seq", "Map", "Bytes">>

discriminant(v) == CHOOSE i \in 1..Len(ValueOrder) : ValueOrder[i] = v.k

\* Ord for slices of integers: a is before b in lexicographic order.
LexLess(a, b) ==
    \/ Len(a) < Len(b) /\ a = SubSeq(b, 1, Len(a))
    \/ \E i \in 1..Len(a) :
           i <= Len(b) /\ a[i] < b[i] /\ SubSeq(a, 1, i - 1) = SubSeq(b, 1, i - 1)

\* The absolute value of the float a is below that of b; neither is a NaN.
FloatMagLess(a, b) ==
    IF a.class = "inf" THEN FALSE
    ELSE IF b.class = "inf" THEN TRUE
    ELSE MagLess(BigShift(a.m, IF a.e > b.e THEN a.e - b.e ELSE 0),
                 BigShift(b.m, IF b.e > a.e THEN b.e - a.e ELSE 0))

\* Ord for OrderedFloat: a NaN is above every other float and equal to a
\* NaN, the two zeros are equal.
FloatLess(a, b) ==
    IF a.class = "nan" THEN FALSE
    ELSE IF b.class = "nan" THEN TRUE
    ELSE IF a.m = <<0>> /\ b.m = <<0>> /\ a.class = "finite" /\ b.class = "finite" THEN FALSE
    ELSE IF a.neg # b.neg THEN a.neg
    ELSE IF a.neg THEN FloatMagLess(b, a) ELSE FloatMagLess(a, b)

RECURSIVE ValueLess(_, _)
RECURSIVE ValuesLess(_, _)
\* Ord for Vec<Value>, and for the entries of a BTreeMap laid out as key,
\* value, key, value: a is before b in lexicographic order.
ValuesLess(a, b) ==
    IF b = <<>> THEN FALSE
    ELSE IF a = <<>> THEN TRUE
    ELSE IF ValueLess(a[1], b[1]) THEN TRUE
    ELSE IF ValueLess(b[1], a[1]) THEN FALSE
    ELSE ValuesLess(Tail(a), Tail(b))

\* serde_value's Ord for Value: a is before b.  Values of one variant are
\* compared by their content, values of two variants by the discriminant.
ValueLess(a, b) ==
    IF a.k # b.k THEN discriminant(a) < discriminant(b)
    ELSE CASE a.k = "Bool" -> ~a.v /\ b.v
           [] a.k \in IntKinds -> a.v # b.v /\ NumLeq(a.v, b.v)
           [] a.k \in FloatKinds -> FloatLess(a.v, b.v)
           [] a.k = "Char" -> LexLess(as_bytes(<<a.v>>), as_bytes(<<b.v>>))
           [] a.k = "String" -> LexLess(as_bytes(a.v), as_bytes(b.v))
           [] a.k = "Bytes" -> LexLess(a.v, b.v)
           [] a.k = "Option" -> ValuesLess(a.v, b.v)
           [] a.k = "NewtypeStruct" -> ValueLess(a.v, b.v)
           [] a.k = "Seq" -> ValuesLess(a.v, b.v)
           [] a.k = "Map" ->
                ValuesLess([i \in 1..(2 * Len(a.v)) |-> a.v[(i + 1) \div 2][2 - (i % 2)]],
                           [i \in 1..(2 * Len(b.v)) |-> b.v[(i + 1) \div 2][2 - (i % 2)]])
           [] OTHER -> FALSE

\* BTreeMap::insert on a map held as the sequence of its pairs in key order:
\* the value of a key already present is replaced and the key is kept, a
\* new pair goes after the pairs of the keys before it.
MapInsert(acc, k, v) ==
    IF \E i \in 1..Len(acc) : ~ValueLess(acc[i][1], k) /\ ~ValueLess(k, acc[i][1])
    THEN [i \in 1..Len(acc) |->
             IF ~ValueLess(acc[i][1], k) /\ ~ValueLess(k, acc[i][1])
             THEN <<acc[i][1], v>> ELSE acc[i]]
    ELSE SubSeq(acc, 1, Cardinality({i \in 1..Len(acc) : ValueLess(acc[i][1], k)}))
         \o << <<k, v>> >>
         \o SubSeq(acc, Cardinality({i \in 1..Len(acc) : ValueLess(acc[i][1], k)}) + 1,
                   Len(acc))

\* serde_value's ValueVisitor::visit_map: entries are asked for until the
\* accessor answers None for a key.
Value_visit_map(de, acc) ==
    LET on_value(k, v) ==
            IF ~v.res.ok THEN v
            ELSE Value_visit_map(v.de, MapInsert(acc, k.res.val[1], v.res.val))
        on_key(k) ==
            IF ~k.res.ok THEN k
            ELSE IF k.res.val = None THEN R(k.de, Ok(MapOf(acc)))
            ELSE on_value(k, next_value_seed(k.de, ValueT))
    IN  on_key(next_key_seed(de, ValueT))

\* IgnoredAny's visit_seq: elements are read as IgnoredAny until the accessor
\* answers None.
IgnoredAny_visit_seq(de) ==
    LET on(e) ==
            IF ~e.res.ok THEN e
            ELSE IF e.res.val = None THEN R(e.de, Ok(IgnoredAny))
            ELSE IgnoredAny_visit_seq(e.de)
    IN  on(next_element_seed(de, IgnoredT))

\* IgnoredAny's visit_map: entries are read as IgnoredAny until the accessor
\* answers None for a key.
IgnoredAny_visit_map(de) ==
    LET on_value(v) == IF ~v.res.ok THEN v ELSE IgnoredAny_visit_map(v.de)
        on_key(k) ==
            IF ~k.res.ok THEN k
            ELSE IF k.res.val = None THEN R(k.de, Ok(IgnoredAny))
            ELSE on_value(next_value_seed(k.de, IgnoredT))
    IN  on_key(next_key_seed(de, IgnoredT))

\* The visit_seq of a derived struct: one next_element per field, in
\* declaration order, and no call after the last field.
Struct_visit_seq(de, T, i, acc) ==
    LET on(e) ==
            IF ~e.res.ok THEN e
            ELSE IF e.res.val = None THEN R(e.de, Custom)
            ELSE Struct_visit_seq(e.de, T, i + 1,
                                  Append(acc, <<String(T.fields[i][1]), e.res.val[1]>>))
    IN  IF i > Len(T.fields) THEN R(de, Ok(Struct(T.name, acc)))
        ELSE on(next_element_seed(de, T.fields[i][2]))

\* The visit_map of a derived struct: keys are read as field identifiers
\* until the accessor answers None.  A field given twice is an error; the
\* value of a key that names no field is read as IgnoredAny; a field never
\* given is None if its type is an Option and an error otherwise.  got[i]
\* is the Option of the i-th field's value.
Struct_visit_map(de, T, got) ==
    LET on_value(f, v) ==
            IF ~v.res.ok THEN v
            ELSE Struct_visit_map(v.de, T,
                                  IF f = 0 THEN got ELSE [got EXCEPT ![f] = Some(v.res.val)])
        on_field(k, f) ==
            IF f # 0 /\ got[f] # None THEN R(k.de, Custom)
            ELSE on_value(f, next_value_seed(k.de, IF f = 0 THEN IgnoredT ELSE T.fields[f][2]))
        on_key(k) ==
            IF ~k.res.ok THEN k
            ELSE IF k.res.val = None
            THEN IF \E i \in 1..Len(got) : got[i] = None /\ T.fields[i][2].t # "Option"
                 THEN R(k.de, Custom)
                 ELSE R(k.de, Ok(Struct(T.name,
                            [i \in 1..Len(got) |->
                                <<String(T.fields[i][1]),
                                  IF got[i] = None THEN OptNone ELSE got[i][1]>>])))
            ELSE on_field(k, k.res.val[1])
    IN  on_key(next_key_seed(de, FieldT(T.fields)))

\* A visit_seq of fixed arity (serde's tuples, a derived newtype struct):
\* one next_element per element, and no call after the last one.
Tuple_visit_seq(de, T, i, acc) ==
    LET on(e) ==
            IF ~e.res.ok THEN e
            ELSE IF e.res.val = None THEN R(e.de, Custom)
            ELSE Tuple_visit_seq(e.de, T, i + 1, Append(acc, e.res.val[1]))
    IN  IF i > Len(T.fields) THEN R(de, Ok(tuple_value(T, acc)))
        ELSE on(next_element_seed(de, T.fields[i][2]))

\* The visit_enum of a derived enum on a VariantDeserializer: variant_seed
\* looks the variant up by its name, then the method of VariantAccess that
\* the variant's declaration calls for reads the content:
\*   unit_variant           unreachable!
\*   newtype_variant_seed   the content, then assert_eq!(next, PopList)
\*   tuple_variant          deserialize_tuple, that is deserialize_any
\*   struct_variant         deserialize_map, that is deserialize_any
\* IgnoredAny's visit_enum reads the variant's name and then the content as
\* that of a newtype variant.
Enum_visit_enum(de, T, variant) ==
    LET made(D, r) ==
            IF ~r.res.ok THEN r
            ELSE IF T.t = "Ignored" THEN expect_pop(r.de, IgnoredAny)
            ELSE IF D.t = "Newtype"
            THEN expect_pop(r.de, variant_value(T, variant, D, r.res.val))
            ELSE R(r.de, Ok(variant_value(T, variant, D, r.res.val)))
        of_variant(D) ==
            IF D.t = "Unit" THEN R(de, PANIC)
            ELSE made(D, deserialize_any(de, IF D.t = "Newtype" THEN D.fields[1][2] ELSE D))
    IN  IF T.t = "Ignored" THEN of_variant(NewtypeT(<<>>, IgnoredT))
        ELSE IF T.t # "Enum" \/ FieldIndex(T.fields, variant) = 0 THEN R(de, Custom)
        ELSE of_variant(T.fields[FieldIndex(T.fields, variant)][2])

\* Deserializer::ordered_list, the match on the tag t that was read.
ordered_list_of(t, T) ==
    LET wrapped(kind, r) ==
            IF ~r.res.ok THEN r
            ELSE expect_pop(r.de, wrapper_value(T, kind, r.res.val))
        popped(r) == IF ~r.res.ok THEN r ELSE expect_pop(r.de, r.res.val)
    IN  CASE ~t.res.ok -> t
          [] t.res.val.kind \in {"Some", "NewtypeStruct"} ->
               \* visitor.visit_some / visit_newtype_struct, then the PopList
               IF wrapper_inner(T, t.res.val.kind) = None THEN R(t.de, Custom)
               ELSE wrapped(t.res.val.kind,
                            deserialize_any(t.de, wrapper_inner(T, t.res.val.kind)[1]))
          [] t.res.val.kind \in {"NewtypeVariant", "TupleVariant"} ->
               \* visitor.visit_enum, and the PopList after a newtype variant
               IF t.res.val.kind = "TupleVariant"
               THEN Enum_visit_enum(t.de, T, t.res.val.variant[1])
               ELSE popped(Enum_visit_enum(t.de, T, t.res.val.variant[1]))
          [] t.res.val.kind \in {"Seq", "Tuple", "TupleStruct"} ->
               \* visitor.visit_seq
               CASE T.t = "Value" -> Value_visit_seq(t.de, <<>>)
                 [] T.t = "Ignored" -> IgnoredAny_visit_seq(t.de)
                 [] T.t = "Struct" -> Struct_visit_seq(t.de, T, 1, <<>>)
                 [] T.t \in {"Tuple", "Newtype"} -> Tuple_visit_seq(t.de, T, 1, <<>>)
                 [] OTHER -> R(t.de, Custom)
          [] OTHER -> R(t.de, PANIC)

\* Deserializer::ordered_list
Deserializer_ordered_list(de, T) == ordered_list_of(read_tag(de), T)

\* Deserializer::unordered_list, the match on the tag t that was read.
unordered_list_of(t, T) ==
    CASE ~t.res.ok -> t
      [] t.res.val.kind \in {"Map", "Struct"} ->
           \* visitor.visit_map
           CASE T.t = "Value" -> Value_visit_map(t.de, <<>>)
             [] T.t = "Ignored" -> IgnoredAny_visit_map(t.de)
             [] T.t = "Struct" ->
                  Struct_visit_map(t.de, T, [i \in 1..Len(T.fields) |-> None])
             [] OTHER -> R(t.de, Custom)
      [] t.res.val.kind = "StructVariant" ->
           \* visitor.visit_enum
           Enum_visit_enum(t.de, T, t.res.val.variant[1])
      [] OTHER -> R(t.de, PANIC)

\* Deserializer::unordered_list
Deserializer_unordered_list(de, T) == unordered_list_of(read_tag(de), T)

\* T::deserialize(&mut Deserializer::new(&buf))
deserialize(text, T) == deserialize_any(Deserializer_new(text), T)

(***************************************************************************)
(* Tag codec scenario (ty.rs tests::roundtrip!): a Type is formatted with  *)
(* Display and the text is handed to Type::from_str.                       *)
(***************************************************************************)
NameChars == {"P", "_", "7"}

\* names and variants: texts without "/"
Names == SeqsUpTo(NameChars, MaxNameLen)

Lens == {Num(n) : n \in 0..MaxTagLen}
        \cup {Dec("4294967296"), Dec("18446744073709551615")}

Tags ==
    {Plain(k) : k \in PlainKinds}
    \cup {Ty(k, Some(n), None, None) : k \in {"UnitStruct", "NewtypeStruct"}, n \in Names}
    \cup {Ty(k, Some(n), Some(v), None) :
            k \in {"UnitVariant", "NewtypeVariant"}, n \in Names, v \in Names}
    \cup {Ty(k, None, None, l) : k \in {"Seq", "Map"}, l \in {None} \cup {Some(n) : n \in Lens}}
    \cup {Ty("Tuple", None, None, Some(l)) : l \in Lens}
    \cup {Ty(k, Some(n), None, Some(l)) : k \in {"TupleStruct", "Struct"}, n \in Names, l \in Lens}
    \cup {Ty(k, Some(n), Some(v), Some(l)) :
            k \in {"TupleVariant", "StructVariant"}, n \in Names, v \in Names, l \in Lens}


InitTag ==
    /\ pc = "tag"
    /\ input \in Tags
    /\ output = <<>>
    /\ cursor = None
    /\ reader = None
    /\ tokens = <<>>
    /\ result = None

\* let repr = format!("{}", ty);
FormatTag ==
    /\ pc = "tag"
    /\ output' = Type_fmt(input)
    /\ pc' = "shown"
    /\ UNCHANGED <<input, cursor, reader, tokens, result>>

\* Type::from_str(&repr)
ParseTag ==
    /\ pc = "shown"
    /\ result' = Some(from_str(output))
    /\ pc' = "parsed"
    /\ UNCHANGED <<input, output, cursor, reader, tokens>>

NextTag == FormatTag \/ ParseTag

SpecTag == InitTag /\ [][NextTag]_vars

\* C2: every Type tag, formatted with Display and parsed with Type::from_str,
\* comes back as a tag equal to the original.
TagRoundTrip == pc = "parsed" => result = Some(Ok(input))

\* A sequence tag of unknown length and a three-fragment variant tag with a
\* two-digit length have both made the trip.
TagRoundTripWitness ==
    /\ pc = "parsed"
    /\ result[1].ok
    /\ \/ input.kind = "Seq" /\ input.len = None
       \/ /\ input.kind = "StructVariant"
          /\ input.len = Some(Num(MaxTagLen))
          /\ input.name = Some(<<"_">>)

(***************************************************************************)
(* Tag decoding scenario: Type::from_str on an arbitrary text, made of a   *)
(* prefix, a first segment and up to MaxFragments further segments, each   *)
(* introduced by a "/".                                                    *)
(***************************************************************************)
\* most segments after the first one
MaxFragments == 3

Prefixes == {Str("serde://"), <<>>, Str("serde//"), Str("http://"), Str("Serde://")}

\* The kinds of section 4.1: <<first segment, variant of Type, number of
\* name and variant segments, length segment: "no", "req" or "opt">>.
KnownDomains ==
    {<<Str("bool"), "Bool", 0, "no">>, <<Str("i8"), "I8", 0, "no">>,
     <<Str("i16"), "I16", 0, "no">>, <<Str("i32"), "I32", 0, "no">>,
     <<Str("i64"), "I64", 0, "no">>, <<Str("i128"), "I128", 0, "no">>,
     <<Str("u8"), "U8", 0, "no">>, <<Str("u16"), "U16", 0, "no">>,
     <<Str("u32"), "U32", 0, "no">>, <<Str("u64"), "U64", 0, "no">>,
     <<Str("u128"), "U128", 0, "no">>, <<Str("f32"), "F32", 0, "no">>,
     <<Str("f64"), "F64", 0, "no">>, <<Str("char"), "Char", 0, "no">>,
     <<Str("string"), "String", 0, "no">>, <<Str("bytes"), "Bytes", 0, "no">>,
     <<Str("none"), "None", 0, "no">>, <<Str("some"), "Some", 0, "no">>,
     <<Str("unit"), "Unit", 0, "no">>,
     <<Str("unit_struct"), "UnitStruct", 1, "no">>,
     <<Str("unit_variant"), "UnitVariant", 2, "no">>,
     <<Str("newtype_struct"), "NewtypeStruct", 1, "no">>,
     <<Str("newtype_variant"), "NewtypeVariant", 2, "no">>,
     <<Str("seq"), "Seq", 0, "opt">>, <<Str("tuple"), "Tuple", 0, "req">>,
     <<Str("tuple_struct"), "TupleStruct", 1, "req">>,
     <<Str("tuple_variant"), "TupleVariant", 2, "req">>,
     <<Str("map"), "Map", 0, "opt">>, <<Str("struct"), "Struct", 1, "req">>,
     <<Str("struct_variant"), "StructVariant", 2, "req">>}

UnknownDomains == {<<>>, Str("option"), Str("Bool"), Str("seq "), Str("i7")}

Domains == {d[1] : d \in KnownDomains} \cup UnknownDomains

\* segments: names, unsigned numbers, and texts that are not unsigned numbers
FragmentTexts == {<<>>, <<"P">>, <<"3">>, Str("4294967296"), Str("x3"), Str("-1")}

UriInput(prefix, domain, frags) ==
    [kind |-> "uri", prefix |-> prefix, domain |-> domain, frags |-> frags]

UriInputs ==
    {UriInput(p, d, fs) : p \in Prefixes, d \in Domains,
                          fs \in SeqsUpTo(FragmentTexts, MaxFragments)}

\* The text of an input: the prefix, the first segment, and "/" before
\* every further segment.
UriText(in) ==
    in.prefix \o in.domain \o Concat([i \in 1..Len(in.frags) |-> <<"/">> \o in.frags[i]])

InitUri ==
    /\ input \in UriInputs
    /\ pc = "shown"
    /\ output = UriText(input)
    /\ cursor = None
    /\ reader = None
    /\ tokens = <<>>
    /\ result = None

SpecUri == InitUri /\ [][ParseTag]_vars

IsUnsigned(text) == text # <<>> /\ \A i \in 1..Len(text) : is_ascii_digit(text[i])

\* What the claim expects of a text whose first segment is the known kind
\* d: the first absent required segment decides, then the length segment.
ExpectedOfKind(d, frags) ==
    LET n == d[3]
        hasLen == Len(frags) > n
        lenText == frags[n + 1]
        name == IF n >= 1 THEN Some(frags[1]) ELSE None
        variant == IF n >= 2 THEN Some(frags[2]) ELSE None
    IN  IF Len(frags) < n THEN Err("MissingPathFragment")
        ELSE CASE d[4] = "no" -> Ok(Ty(d[2], name, variant, None))
               [] d[4] = "opt" ->
                    IF ~hasLen \/ lenText = <<>> THEN Ok(Ty(d[2], name, variant, None))
                    ELSE IF ~IsUnsigned(lenText) THEN Err("IntParseError")
                    ELSE Ok(Ty(d[2], name, variant, Some(NumOf(FALSE, lenText))))
               [] d[4] = "req" ->
                    IF ~hasLen THEN Err("MissingPathFragment")
                    ELSE IF ~IsUnsigned(lenText) THEN Err("IntParseError")
                    ELSE Ok(Ty(d[2], name, variant, Some(NumOf(FALSE, lenText))))

\* What the claim expects Type::from_str to return for an input.
ExpectedTag(in) ==
    IF in.prefix # Str("serde://") THEN Err("UnknownSchema")
    ELSE IF \A d \in KnownDomains : d[1] # in.domain THEN Err("UnknownType")
    ELSE ExpectedOfKind(CHOOSE d \in KnownDomains : d[1] = in.domain, in.frags)

\* C11: Type::from_str returns UnknownSchema for a text that does not start
\* with serde://, else UnknownType for an unknown first segment, else
\* MissingPathFragment for an absent required segment, else IntParseError
\* for a length that is not an unsigned integer; an absent or empty length
\* of seq and map is an unknown length; every other text is its tag.
TagErrorClassification == pc = "parsed" => result = Some(ExpectedTag(input))

\* Each of the four errors has been returned, and a map with an empty
\* length segment has been decoded as a map of unknown length.
TagErrorWitness ==
    /\ pc = "parsed"
    /\ \/ ~result[1].ok /\ result[1].err = "IntParseError" /\ input.domain = Str("struct")
       \/ result[1].ok /\ input.domain = Str("map") /\ input.frags = <<<<>>>>

(***************************************************************************)
(* The scenarios of lib.rs: a value is serialized into a document          *)
(* (roundtrip, first half), a text is written as one leaf (Writer::link),  *)
(* or a document is given as it is.  The document is then read token by    *)
(* token, one Reader::next per step, and deserialized (roundtrip, second   *)
(* half).                                                                  *)
(***************************************************************************)
\* number of nodes of the largest generated value
MaxNodes == 3
\* longest generated text
MaxTextLen == 2

TextChars == {"a", "]", "\\", "-", ".", "_"}

Texts == SeqsUpTo(TextChars, MaxTextLen)

\* every ASCII punctuation character the model can write, and some others
AllPunct == Str("!\"#$%&'()*+,-./:;<=>?@[\\]^_{|}~ aZ09") \o <<Grave>>

ByteVals == {0, 251, 255}

\* Byte buffers of up to one base64 group (three bytes), which the single
\* encoder.write(buf) of Writer::bytes_link takes whole, and two longer ones.
Buffers == SeqsUpTo(ByteVals, 3) \cup {<<0, 0, 0, 0>>, <<1, 2, 3, 4, 5>>}

Leaves ==
    {Prim("Bool", TRUE), Prim("U8", Num(1)), Prim("I8", Num(-5)), Prim("Char", "a"), Unit, OptNone,
     String(<<>>), String(<<"a">>), String(<<"]">>), Prim("Bytes", <<>>), Prim("Bytes", <<255>>)}

RECURSIVE ValuesOfSize(_)
RECURSIVE SeqsOfSize(_)
\* The values of serde_value's grammar (st_value in lib.rs) with exactly n
\* nodes: leaves, options, newtypes, sequences and one-entry maps.
ValuesOfSize(n) ==
    IF n = 1 THEN Leaves \cup {SeqOf(<<>>), MapOf(<<>>)}
    ELSE {OptSome(x) : x \in ValuesOfSize(n - 1)}
         \cup {Newtype(x) : x \in ValuesOfSize(n - 1)}
         \cup {SeqOf(xs) : xs \in SeqsOfSize(n - 1)}
         \cup UNION {{MapOf(<<<<k, v>>>>) : k \in ValuesOfSize(i), v \in ValuesOfSize(n - 1 - i)} :
                        i \in 1..(n - 2)}

\* The non-empty sequences of values with n nodes in all.
SeqsOfSize(n) ==
    {<<x>> : x \in ValuesOfSize(n)}
    \cup UNION {{<<x>> \o xs : x \in ValuesOfSize(i), xs \in SeqsOfSize(n - i)} : i \in 1..(n - 1)}

Values == UNION {ValuesOfSize(n) : n \in 1..MaxNodes}

\* struct Point { x: u8, y: u8 }
Point(x, y) ==
    Struct(Str("Point"), << <<String(<<"x">>), Prim("U8", Num(x))>>, <<String(<<"y">>), Prim("U8", Num(y))>> >>)

PointT == StructT(Str("Point"), << <<(<<"x">>), IntT("U8")>>, <<(<<"y">>), IntT("U8")>> >>)

ValueInput(v, T) == [kind |-> "value", v |-> v, T |-> T]

LeafInput(text, list) == [kind |-> "leaf", text |-> text, list |-> list, T |-> ValueT]

ValueInputs ==
    {ValueInput(v, ValueT) : v \in Values}
    \cup {ValueInput(Prim("Bytes", b), ValueT) : b \in Buffers}
    \cup {ValueInput(Point(1, 2), PointT)}
    \* main.rs transcodes from a source that does not know its lengths
    \cup {ValueInput(V(k, None, None, None, <<>>), ValueT) : k \in {"Seq", "Map"}}

LeafInputs ==
    {LeafInput(t, l) : t \in Texts \cup {AllPunct},
                       l \in {None, Some(List(0, Asterisk)), Some(List(1, DottedNumber(3)))}}

\* One line of a list: the indentation, the bullet ("*" or a number and a
\* dot), a space and the item's body.
Line(width, kind, n, body) ==
    Spaces(width) \o (IF kind = "*" THEN <<"*">> ELSE FmtUnsigned(n) \o <<".">>)
        \o <<" ">> \o body \o <<"\n">>

TagBody == Str("[t](serde://seq/)")

ItemBody == Str("[1](serde://u8)")

\* A root list (bullet kinds[1]) holding three lists nested in one another
\* (bullets kinds[2..4], indented by widths[1] < widths[2] < widths[3]),
\* followed, if tail, by one more item of the root list.
NestedDoc(kinds, widths, tail) ==
    Line(0, kinds[1], 0, TagBody) \o Line(0, kinds[1], 1, <<>>)
    \o Line(widths[1], kinds[2], 0, TagBody) \o Line(widths[1], kinds[2], 1, <<>>)
    \o Line(widths[2], kinds[3], 0, TagBody) \o Line(widths[2], kinds[3], 1, <<>>)
    \o Line(widths[3], kinds[4], 10, TagBody)
    \o (IF tail THEN Line(0, kinds[1], 2, ItemBody) ELSE <<>>)

DocInput(kinds, widths, tail) ==
    [kind |-> "doc", doc |-> NestedDoc(kinds, widths, tail), kinds |-> kinds,
     widths |-> widths, tail |-> tail, T |-> ValueT]

DocInputs ==
    {DocInput(ks, ws, t) : ks \in [1..4 -> {"*", "n"}],
                           ws \in {<<4, 8, 12>>, <<1, 2, 3>>, <<2, 4, 9>>},
                           t \in BOOLEAN}

\* enum E { U, N(u8), T(u8, u8), S { x: u8 } }
ET ==
    EnumT(Str("E"),
          << <<Str("U"), UnitT>>,
             <<Str("N"), NewtypeT(<<>>, IntT("U8"))>>,
             <<Str("T"), TupleT(<<IntT("U8"), IntT("U8")>>)>>,
             <<Str("S"), StructT(Str("E"), << <<(<<"x">>), IntT("U8")>> >>)>> >>)

E_U == UnitVariant(Str("E"), Str("U"))

E_N(x) == V("NewtypeVariant", Some(Str("E")), Some(Str("N")), None, Prim("U8", Num(x)))

E_T(a, b) ==
    V("TupleVariant", Some(Str("E")), Some(Str("T")), Some(Num(2)), <<Prim("U8", Num(a)), Prim("U8", Num(b))>>)

E_S(x) ==
    V("StructVariant", Some(Str("E")), Some(Str("S")), Some(Num(1)),
      << <<String(<<"x">>), Prim("U8", Num(x))>> >>)

\* (u8, u8)
PairT == TupleT(<<IntT("U8"), IntT("U8")>>)

Pair(a, b) == V("Tuple", None, None, Some(Num(2)), <<Prim("U8", Num(a)), Prim("U8", Num(b))>>)

\* struct N(u8)
N(x) == V("NewtypeStruct", Some(<<"N">>), None, None, x)

\* struct H<A> { a: A, n: u8 } and struct L<A> { n: u8, a: A }
H(a) == Struct(<<"H">>, << <<String(<<"a">>), a>>, <<String(<<"n">>), Prim("U8", Num(3))>> >>)

HT(A) == StructT(<<"H">>, << <<(<<"a">>), A>>, <<(<<"n">>), IntT("U8")>> >>)

L(a) == Struct(<<"L">>, << <<String(<<"n">>), Prim("U8", Num(3))>>, <<String(<<"a">>), a>> >>)

LT(A) == StructT(<<"L">>, << <<(<<"n">>), IntT("U8")>>, <<(<<"a">>), A>> >>)

\* #[serde(rename = ")\nx")] struct R;
Renamed == Str(")\nx")

\* Values of types with visitors of their own, each with its type.
Typed ==
    {<<UnitStruct(<<"U">>), UnitStructT(<<"U">>)>>, <<UnitStruct(Renamed), UnitStructT(Renamed)>>,
     <<Pair(1, 2), PairT>>, <<E_U, ET>>, <<E_N(1), ET>>, <<E_T(1, 2), ET>>, <<E_S(1), ET>>,
     <<N(Prim("U8", Num(1))), NewtypeT(<<"N">>, IntT("U8"))>>,
     <<N(Pair(1, 2)), NewtypeT(<<"N">>, PairT)>>,
     <<OptNone, OptionT(IntT("U8"))>>,
     <<OptSome(Prim("U8", Num(1))), OptionT(IntT("U8"))>>,
     <<OptSome(Pair(1, 2)), OptionT(PairT)>>}

\* Integers of every width around the ends of the ranges.
IntSamples(k) ==
    {x \in {Num(n) : n \in {-300, -128, -5, 0, 1, 127, 255, 300}}
            \cup {Dec("-2147483648"), Dec("4294967295"), Dec("-9223372036854775808"),
                  Dec("18446744073709551615"),
                  Dec("170141183460469231731687303715884105727")} :
         NumLeq(IntRange(k).lo, x) /\ NumLeq(x, IntRange(k).hi)}

IntInputs ==
    {ValueInput(Prim(x[1], x[2]), IntT(x[1])) :
        x \in UNION {{<<k, n>> : n \in IntSamples(k)} : k \in IntKinds \cup {"I128", "U128"}}}

TypedInputs ==
    {ValueInput(x[1], x[2]) : x \in Typed}
    \cup IntInputs
    \cup {ValueInput(H(x[1]), HT(x[2])) : x \in Typed}
    \cup {ValueInput(L(x[1]), LT(x[2])) : x \in Typed}

\* A document given as text, to be deserialized as a T.
TextInput(doc, T) == [kind |-> "text", doc |-> doc, T |-> T]

\* Documents in which a value is missing: the empty document; a root
\* composite holding its tag only; a map whose one pair holds a key only; a
\* map whose first pair holds a key only and whose second pair is whole; a
\* sequence whose one element is a newtype struct holding its tag only.
MissingValueDocs ==
    {<<>>,
     Str("0. [Some](serde://some)\n"),
     Str("0. [N](serde://newtype_struct/N)\n"),
     Str("* [Map of length 1](serde://map/1)\n")
         \o Str("* \n") \o Str("    0. [k](serde://string)\n"),
     Str("* [Map of length 2](serde://map/2)\n")
         \o Str("* \n") \o Str("    0. [k](serde://string)\n")
         \o Str("* \n") \o Str("    0. [l](serde://string)\n")
         \o Str("    1. [1](serde://u8)\n"),
     Str("0. [Seq of length 1](serde://seq/1)\n")
         \o Str("1. \n") \o Str("    0. [N](serde://newtype_struct/N)\n")}

TextInputs == {TextInput(d, ValueT) : d \in MissingValueDocs}

\* A document of one leaf, given as text.
LeafDoc(text, uri) == <<"[">> \o Str(text) \o Str("](serde://") \o Str(uri) \o Str(")\n")

\* One pair of a map or a struct: the lines of the key and of the value.
Entry(key, value) == Str("* \n") \o Str("    0. ") \o key \o Str("    1. ") \o value

\* A Point whose fields are keyed by the links key1 and key2.
KeyedPoint(key1, key2) ==
    Str("* [Struct Point of length 2](serde://struct/Point/2)\n")
    \o Entry(key1, LeafDoc("1", "u8")) \o Entry(key2, LeafDoc("2", "u8"))

\* A map of two pairs keyed by key1 and key2, in this order.
KeyedMap(key1, key2) ==
    Str("* [Map of length 2](serde://map/2)\n")
    \o Entry(key1, LeafDoc("1", "u8")) \o Entry(key2, LeafDoc("2", "u8"))

\* Literals as a hand-written document may spell them, each with the type
\* it is read as: floats with a point, an exponent or a name, integers
\* beyond 32 bits and with a sign, base64 with and without its padding,
\* struct fields named by index, by bytes and by a character, a struct with
\* a field too many or a field missing, and maps whose keys are not in
\* order or not distinct.
Literals ==
    {<<LeafDoc("1.5", "f64"), ValueT>>, <<LeafDoc("1e3", "f64"), ValueT>>,
     <<LeafDoc(".5", "f32"), ValueT>>, <<LeafDoc("5.", "f64"), ValueT>>,
     <<LeafDoc("infinity", "f64"), ValueT>>, <<LeafDoc("NaN", "f32"), ValueT>>,
     <<LeafDoc("2147483647", "f32"), ValueT>>, <<LeafDoc("1.5x", "f64"), ValueT>>,
     <<LeafDoc("1.0", "f64"), IntT("U8")>>,
     <<LeafDoc("2147483648", "u32"), ValueT>>, <<LeafDoc("4294967296", "u64"), ValueT>>,
     <<LeafDoc("4294967296", "u64"), IntT("U64")>>, <<LeafDoc("4294967296", "u32"), ValueT>>,
     <<LeafDoc("18446744073709551615", "u64"), ValueT>>,
     <<LeafDoc("18446744073709551616", "u64"), ValueT>>,
     <<LeafDoc("-2147483648", "i64"), IntT("I32")>>, <<LeafDoc("+5", "u8"), IntT("U8")>>,
     <<LeafDoc("1", "u128"), IntT("U8")>>, <<LeafDoc("1", "u128"), IntT("U128")>>,
     <<LeafDoc("AQIDBA", "bytes"), ValueT>>, <<LeafDoc("AQIDBA==", "bytes"), ValueT>>,
     <<LeafDoc("AA=", "bytes"), ValueT>>, <<LeafDoc("AAA", "bytes"), ValueT>>,
     <<LeafDoc("A", "bytes"), ValueT>>,
     <<KeyedPoint(LeafDoc("x", "string"), LeafDoc("y", "string")), PointT>>,
     <<KeyedPoint(LeafDoc("0", "u8"), LeafDoc("1", "u64")), PointT>>,
     <<KeyedPoint(LeafDoc("eA==", "bytes"), LeafDoc("eQ", "bytes")), PointT>>,
     <<KeyedPoint(LeafDoc("0", "i8"), LeafDoc("1", "u8")), PointT>>,
     <<KeyedPoint(LeafDoc("x", "char"), LeafDoc("y", "string")), PointT>>,
     <<KeyedPoint(LeafDoc("x", "string"), LeafDoc("y", "string"))
           \o Entry(LeafDoc("z", "string"), LeafDoc("1", "u128")), PointT>>,
     <<KeyedPoint(LeafDoc("x", "string"), LeafDoc("y", "string"))
           \o Entry(LeafDoc("z", "string"),
                    Str("\n        0. [t](serde://seq/)\n        1. [1](serde://u8)\n")),
       PointT>>,
     <<KeyedPoint(LeafDoc("x", "string"), LeafDoc("z", "string")), PointT>>,
     <<Str("* [Struct H of length 1](serde://struct/H/1)\n")
           \o Entry(LeafDoc("n", "string"), LeafDoc("3", "u8")), HT(OptionT(IntT("U8")))>>,
     <<Str("* [Struct H of length 1](serde://struct/H/1)\n")
           \o Entry(LeafDoc("n", "string"), LeafDoc("3", "u8")), HT(IntT("U8"))>>,
     <<KeyedMap(LeafDoc("2", "u8"), LeafDoc("1", "u8")), ValueT>>,
     <<KeyedMap(LeafDoc("1", "u8"), LeafDoc("1", "u8")), ValueT>>,
     <<KeyedMap(LeafDoc("a", "string"), LeafDoc("1", "i8")), ValueT>>,
     <<KeyedMap(LeafDoc("b", "string"), LeafDoc("ab", "string")), ValueT>>,
     <<KeyedMap(LeafDoc("0.5", "f64"), LeafDoc("-2", "f64")), ValueT>>}

LiteralInputs == {[kind |-> "literal", doc |-> x[1], T |-> x[2]] : x \in Literals}

\* Floats a value may hold, as literals of their kind.
FloatSamples ==
    {<<"F64", "2">>, <<"F64", "1.5">>, <<"F64", "0.1">>, <<"F64", "-0">>, <<"F64", "inf">>,
     <<"F64", "NaN">>, <<"F64", "1e21">>, <<"F32", "1">>, <<"F32", "0.1">>,
     <<"F32", "2147483647">>, <<"F32", "-1e-7">>}

FloatInputs == {ValueInput(Prim(x[1], FloatOf(x[1], x[2])), ValueT) : x \in FloatSamples}

Init ==
    /\ input \in ValueInputs \cup FloatInputs \cup TypedInputs \cup LeafInputs \cup DocInputs
                 \cup TextInputs \cup LiteralInputs
    /\ pc = IF input.kind \in {"doc", "text", "literal"} THEN "written" ELSE input.kind
    /\ output = IF input.kind \in {"doc", "text", "literal"} THEN input.doc ELSE <<>>
    /\ cursor = None
    /\ reader = None
    /\ tokens = <<>>
    /\ result = None

\* value.serialize(&mut ser::Serializer::new(&mut buf))
Serialize ==
    /\ pc = "value"
    /\ LET done(s) ==
               /\ output' = s.out
               /\ cursor' = s.list
               /\ pc' = IF s.err = None THEN "written" ELSE "failed"
       IN  done(serialize(Serializer_new, input.v))
    /\ UNCHANGED <<input, reader, tokens, result>>

\* Writer::new(buf).link(list, text, "serde://string")
WriteLink ==
    /\ pc = "leaf"
    /\ LET w == link(<<>>, input.list, input.text, Str("serde://string"))
       IN  /\ output' = w.out
           /\ cursor' = w.list
    /\ pc' = "written"
    /\ UNCHANGED <<input, reader, tokens, result>>

\* Reader::new(&buf)
Open ==
    /\ pc = "written"
    /\ reader' = Some(Reader_new(output))
    /\ pc' = "reading"
    /\ UNCHANGED <<input, output, cursor, tokens, result>>

\* Reader::next, once: the item is recorded, None ends the reading, a panic
\* aborts it.
Poll ==
    /\ pc = "reading"
    /\ LET done(r) ==
               /\ reader' = Some(r.rd)
               /\ tokens' = IF r.ret = "Some" THEN Append(tokens, r.item) ELSE tokens
               /\ pc' = CASE r.ret = "Some" -> "reading"
                          [] r.ret = "None" -> "exhausted"
                          [] r.ret = "panic" -> "aborted"
       IN  done(Reader_next(reader[1]))
    /\ UNCHANGED <<input, output, cursor, result>>

\* T::deserialize(&mut de::Deserializer::new(&buf))
Deserialize ==
    /\ pc \in {"exhausted", "aborted"}
    /\ LET done(d) ==
               /\ result' = Some(d.res)
               \* the Reader as the Deserializer leaves it
               /\ reader' = Some(d.de.rd)
       IN  done(deserialize(output, input.T))
    /\ pc' = IF pc = "exhausted" THEN "read" ELSE "read_aborted"
    /\ UNCHANGED <<input, output, cursor, tokens>>

Next == Serialize \/ WriteLink \/ Open \/ Poll \/ Deserialize

Spec == Init /\ [][Next]_vars

(***************************************************************************)
(* Properties.                                                             *)
(***************************************************************************)
\* Result::unwrap: the Ok as it is, a panic in place of an Err.
unwrap(r) == IF r.ok THEN r ELSE PANIC

\* fn roundtrip of lib.rs, after value.serialize(..) has left the Serializer
\* s: the unwrap of its result, then the unwrap of T::deserialize on the
\* buffer.
roundtrip_buf(s, T) ==
    IF s.err # None THEN PANIC ELSE unwrap(deserialize(s.out, T).res)

\* fn roundtrip of lib.rs: serialize into a buffer, deserialize the buffer;
\* either step's error is unwrapped into a panic.
roundtrip(value, T) == roundtrip_buf(serialize(Serializer_new, value), T)

\* The value a document is expected to give back: the length handed to
\* serialize_seq / serialize_map is a hint and no part of the value, which
\* always knows its length.
Known(v) == IF v.k \in {"Seq", "Map"} THEN [v EXCEPT !.len = Some(Num(Len(v.v)))] ELSE v

\* The Type tag naming the shape of a value.
TypeOf(v) ==
    CASE v.k = "Option" -> Plain(IF v.v = None THEN "None" ELSE "Some")
      [] v.k \in {"Seq", "Map"} -> Ty(v.k, None, None, v.len)
      [] OTHER -> Ty(v.k, v.name, v.variant, v.len)

Done == pc \in {"read", "read_aborted", "failed"}

\* C1: a value that is serialized and whose document is deserialized comes
\* back: both steps succeed and the result equals the value.
ValueRoundTrip ==
    input.kind = "value" =>
        /\ pc # "failed"
        /\ pc \in {"read", "read_aborted"} => result = Some(Ok(Known(input.v)))

\* C3: two unequal values are still unequal after their round trips, both
\* of which succeed.
DistinctnessPreserved ==
    input.kind = "value" /\ input.T = ValueT /\ pc \in {"read", "read_aborted"} =>
        \A v2 \in Values :
            Known(v2) # Known(input.v) =>
                LET differs(r2) == result[1].ok /\ r2.ok /\ r2.val # result[1].val
                IN  differs(roundtrip(v2, ValueT))

\* C4: an absent option at the root is written as the one line
\* [None](serde://none), and that document deserializes to None.
NoneScenario ==
    input.kind = "value" /\ input.v = OptNone =>
        /\ pc # "value" => output = Str("[None](serde://none)\n")
        /\ pc \in {"read", "read_aborted"} => result = Some(Ok(OptNone))

PointDoc ==
    Str("* [Struct Point of length 2](serde://struct/Point/2)\n")
    \o Str("* \n")
    \o Str("    0. [x](serde://string)\n")
    \o Str("    1. [1](serde://u8)\n")
    \o Str("* \n")
    \o Str("    0. [y](serde://string)\n")
    \o Str("    1. [2](serde://u8)\n")

PointTokens ==
    <<PushUnorderedList,
      Link(Str("Struct Point of length 2"), Str("serde://struct/Point/2")),
      PushOrderedList, Link(<<"x">>, Str("serde://string")), Link(<<"1">>, Str("serde://u8")),
      PopList,
      PushOrderedList, Link(<<"y">>, Str("serde://string")), Link(<<"2">>, Str("serde://u8")),
      PopList,
      PopList>>

IsPrefix(s, t) == Len(s) <= Len(t) /\ \A i \in 1..Len(s) : s[i] = t[i]

\* C5: Point { x: 1u8, y: 2u8 } is written as an unordered list of the tag
\* leaf and two items, each an ordered list of a field's name and value; the
\* Reader yields that structure token by token, and the document deserializes
\* to the pairs (x, 1), (y, 2) in this order, that is to Point { x: 1, y: 2 }.
PointScenario ==
    input = ValueInput(Point(1, 2), PointT) =>
        /\ pc # "value" => output = PointDoc
        /\ IsPrefix(tokens, PointTokens)
        /\ pc \in {"exhausted", "read"} => tokens = PointTokens
        /\ pc \notin {"failed", "aborted", "read_aborted"}
        /\ pc = "read" => result = Some(Ok(Point(1, 2)))

\* The Point document has been written, read to its end and deserialized.
PointScenarioWitness ==
    /\ input = ValueInput(Point(1, 2), PointT)
    /\ pc = "read"
    /\ result[1].ok
    /\ Len(tokens) = 11

Links(ts) == SelectSeq(ts, LAMBDA t : t.t = "Link")

\* C6: a text written as a leaf by Writer::link and read back by the Reader
\* is yielded as one Link whose text is the text that was written.
EscapingRoundTrip ==
    input.kind = "leaf" /\ pc \in {"exhausted", "aborted", "read", "read_aborted"} =>
        /\ pc \in {"exhausted", "read"}
        /\ Len(Links(tokens)) = 1
        /\ Links(tokens)[1].text = input.text

\* C7: a byte buffer written by Writer::bytes_link is decoded by the
\* Deserializer's bytes path to the same bytes.
ByteBufferFidelity ==
    input.kind = "value" /\ input.v.k = "Bytes" /\ pc \in {"read", "read_aborted"} =>
        result = Some(Ok(input.v))

Count(ts, kinds) == Len(SelectSeq(ts, LAMBDA t : t.t \in kinds))

Pushes(ts) == Count(ts, {"PushOrderedList", "PushUnorderedList"})

Pops(ts) == Count(ts, {"PopList"})

\* C8: the tokens of a Reader that has run to its end of sequence are
\* balanced: never more PopList than Push before, and as many at the end.
WellNested ==
    /\ \A n \in 0..Len(tokens) : Pops(SubSeq(tokens, 1, n)) <= Pushes(SubSeq(tokens, 1, n))
    /\ pc = "exhausted" => Pops(tokens) = Pushes(tokens)

PushOf(k) == IF k = "*" THEN PushUnorderedList ELSE PushOrderedList

TagLink == Link(<<"t">>, Str("serde://seq/"))

ItemLink == Link(<<"1">>, Str("serde://u8"))

\* What the claim expects of a nested document with a root item at its end.
NestedTokens(kinds) ==
    <<PushOf(kinds[1]), TagLink, PushOf(kinds[2]), TagLink, PushOf(kinds[3]), TagLink,
      PushOf(kinds[4]), TagLink, PopList, PopList, PopList, ItemLink, PopList>>

\* C9: after three lists nested in one another below a root list, an item at
\* root depth makes the Reader yield exactly three PopList, one per call of
\* next and each closing one list, and only then the token of the root item.
DedentOnePopPerLevel ==
    input.kind = "doc" /\ input.tail =>
        /\ IsPrefix(tokens, NestedTokens(input.kinds))
        /\ pc \in {"exhausted", "read"} => tokens = NestedTokens(input.kinds)
        /\ pc \notin {"aborted", "read_aborted"}
        /\ \A j \in 0..3 : pc = "reading" /\ Len(tokens) = 8 + j =>
                               Len(reader[1].indents) = 4 - j

\* The third PopList has been yielded and then the root item's Link, in a
\* document whose lists are indented by 2, 4 and 9 spaces.
DedentWitness ==
    /\ input.kind = "doc" /\ input.tail /\ input.widths = <<2, 4, 9>>
    /\ pc = "reading"
    /\ Len(tokens) = 12
    /\ tokens[11] = PopList /\ tokens[12] = ItemLink

\* C10: the URI the Serializer writes for a value is the Display encoding of
\* the value's Type tag, and Type::from_str reads it as that tag.
CanonicalTagURIs ==
    input.kind = "value" /\ Links(tokens) # <<>> =>
        /\ Links(tokens)[1].uri = Type_fmt(TypeOf(input.v))
        /\ from_str(Links(tokens)[1].uri) = Ok(TypeOf(input.v))

(***************************************************************************)
(* Writer scenario: a caller of md/writer.rs opens lists and writes leaves *)
(* in any order.  cursor holds the caller's List values, numbered in the   *)
(* order they were opened; tokens records every call: the operation, the   *)
(* list it was made on (0: none), the list it opened (0: none) and the     *)
(* length of the output before it.                                         *)
(***************************************************************************)
\* most writer operations in a run
MaxOps == 4

WriterTexts == {<<"a">>, Str("-b"), <<>>}

Call(op, on, new, at) == [op |-> op, on |-> on, new |-> new, at |-> at]

\* the Option<&mut List> of list number i, None for 0
Handle(i) == IF i = 0 THEN None ELSE Some(cursor[i])

\* The caller's lists after a call on list number i left it as `list`.
Advanced(i, list) == IF i = 0 THEN cursor ELSE [cursor EXCEPT ![i] = list[1]]

InitWriter ==
    /\ pc = "writer"
    /\ input = None
    /\ output = <<>>
    /\ cursor = <<>>
    /\ reader = None
    /\ tokens = <<>>
    /\ result = None

\* let list = writer.ordered_list(parent)?;
OrderedList ==
    /\ pc = "writer" /\ Len(tokens) < MaxOps
    /\ \E i \in 0..Len(cursor) :
          LET w == Writer_ordered_list(output, Handle(i))
          IN  /\ output' = w.out
              /\ cursor' = Append(Advanced(i, w.parent), w.list)
              /\ tokens' = Append(tokens, Call("ordered_list", i, Len(cursor) + 1, Len(output)))
    /\ UNCHANGED <<pc, input, reader, result>>

\* let list = writer.unordered_list(parent)?;
UnorderedList ==
    /\ pc = "writer" /\ Len(tokens) < MaxOps
    /\ \E i \in 0..Len(cursor) :
          LET w == Writer_unordered_list(output, Handle(i))
          IN  /\ output' = w.out
              /\ cursor' = Append(Advanced(i, w.parent), w.list)
              /\ tokens' = Append(tokens, Call("unordered_list", i, Len(cursor) + 1, Len(output)))
    /\ UNCHANGED <<pc, input, reader, result>>

\* writer.link(list, text, uri)?;
WriterLink ==
    /\ pc = "writer" /\ Len(tokens) < MaxOps
    /\ \E i \in 0..Len(cursor), text \in WriterTexts :
          LET w == link(output, Handle(i), text, Str("serde://string"))
          IN  /\ output' = w.out
              /\ cursor' = Advanced(i, w.list)
              /\ tokens' = Append(tokens, Call("link", i, 0, Len(output)))
    /\ UNCHANGED <<pc, input, reader, result>>

\* writer.bytes_link(list, buf, uri)?;
WriterBytesLink ==
    /\ pc = "writer" /\ Len(tokens) < MaxOps
    /\ \E i \in 0..Len(cursor) :
          LET w == bytes_link(output, Handle(i), <<251>>, Str("serde://bytes"))
          IN  /\ output' = w.out
              /\ cursor' = Advanced(i, w.list)
              /\ tokens' = Append(tokens, Call("bytes_link", i, 0, Len(output)))
    /\ UNCHANGED <<pc, input, reader, result>>

NextWriter == OrderedList \/ UnorderedList \/ WriterLink \/ WriterBytesLink

SpecWriter == InitWriter /\ [][NextWriter]_vars

\* The call that opened list number i.
Opener(i) == tokens[CHOOSE j \in 1..Len(tokens) : tokens[j].new = i]

RECURSIVE NestingOf(_)
\* The nesting of list number i by the calls that were made: 0 for a list
\* opened without a parent, one more than its parent's otherwise.
NestingOf(i) == IF Opener(i).on = 0 THEN 0 ELSE NestingOf(Opener(i).on) + 1

\* The text call number j wrote.
Written(j) ==
    SubSeq(output, tokens[j].at + 1,
           IF j = Len(tokens) THEN Len(output) ELSE tokens[j + 1].at)

\* How many calls before call number j were made on the same list.
Rank(j) == Cardinality({h \in 1..(j - 1) : tokens[h].on = tokens[j].on})

\* What the claim expects at the start of the line of call number j, made
\* on a list: four spaces for each level, the bullet and a space.
ItemPrefix(j) ==
    [n \in 1..(4 * NestingOf(tokens[j].on)) |-> " "]
    \o (IF Opener(tokens[j].on).op = "ordered_list"
        THEN FmtUnsigned(Rank(j)) \o <<".">> ELSE <<"*">>)
    \o <<" ">>

\* C12: every item written on a list of depth d is one line starting with
\* exactly 4*d spaces, then the bullet: k and a dot for the k-th item of an
\* ordered list (leaves and openers of sublists counted alike, from 0),
\* an asterisk for an unordered list, then a space; a list opened without
\* a parent has depth 0 and writes nothing, a list opened under a parent
\* has the parent's depth plus one.
BulletsAndIndentation ==
    pc = "writer" =>
        /\ \A i \in 1..Len(cursor) : cursor[i].depth = NestingOf(i)
        /\ \A j \in 1..Len(tokens) :
              IF tokens[j].on = 0
              THEN tokens[j].new # 0 => Written(j) = <<>>
              ELSE /\ starts_with(Written(j), ItemPrefix(j))
                   /\ tokens[j].new # 0 => Written(j) = ItemPrefix(j) \o <<"\n">>
                   /\ tokens[j].new = 0 => Written(j)[Len(ItemPrefix(j)) + 1] = "["
                   /\ Find(Written(j), "\n") = Len(Written(j))

\* An ordered list nested in another list has had a leaf written and then,
\* as its second item, the opener of a sublist.
BulletsWitness ==
    /\ pc = "writer" /\ Len(cursor) >= 3
    /\ Opener(2).op = "ordered_list" /\ Opener(2).on = 1
    /\ \E j \in 1..Len(tokens) :
          /\ tokens[j].new # 0 /\ tokens[j].on = 2 /\ Rank(j) = 1
          /\ \E h \in 1..(j - 1) : tokens[h].on = 2 /\ tokens[h].op = "link"

(***************************************************************************)
(* Missing values (de.rs deserialize_any, the PopList branch).             *)
(***************************************************************************)
\* C13: when a value is asked for and the document holds none at that
\* place, a PopList or the end of the tokens, deserialization returns the
\* error UnexpectedEOF; it does not abort.
MissingValueIsUnexpectedEOF ==
    input.kind = "text" /\ pc \in {"read", "read_aborted"} =>
        result = Some(Err("UnexpectedEOF"))

(***************************************************************************)
(* Token consumption of the composites (de.rs ordered_list,                *)
(* unordered_list and the accessors).                                      *)
(***************************************************************************)
\* A sequence, tuple or tuple struct of u8 leaves.
IsSeqOfU8(v) == v.k \in {"Seq", "Tuple", "TupleStruct"} /\ \A i \in 1..Len(v.v) : v.v[i].k = "U8"

\* A u8, a text of letters, or a sequence or tuple of u8 leaves.
IsPlain(v) ==
    \/ v.k = "U8"
    \/ v.k = "String" /\ \A i \in 1..Len(v.v) : ~is_ascii_punctuation(v.v[i])
    \/ IsSeqOfU8(v)

\* The value is a single-child composite, an option holding a value, a
\* newtype struct or a newtype variant, and the value it holds is a u8.
IsWrapper(v) ==
    \/ v.k = "Option" /\ v.v # None /\ v.v[1].k = "U8"
    \/ v.k \in WrapperKinds /\ v.v.k = "U8"

\* The value under test: the field a of an H or of an L, or the value itself.
Subject(v) ==
    CASE v.k = "Struct" /\ v.name = Some(<<"H">>) -> v.v[1][2]
      [] v.k = "Struct" /\ v.name = Some(<<"L">>) -> v.v[2][2]
      [] OTHER -> v

\* The Deserializer has consumed every token of the document.
AllConsumed == Reader_next(reader[1]).ret = "None"

\* The document has been deserialized to the value it was written for, and
\* no token of it is left.
DecodedWhole == result = Some(Ok(Known(input.v))) /\ AllConsumed

\* C14: the document of an option holding a value, of a newtype struct or
\* of a newtype variant (the value held being an integer), at the root or
\* as a field of a struct, is decoded to that value by consuming the
\* composite's tokens and no other.
SingleChildSpan ==
    input.kind = "value" /\ IsWrapper(Subject(input.v)) /\ pc \in {"read", "read_aborted"} =>
        DecodedWhole

\* C15: the document of a tuple variant or of a struct variant, at the root
\* or as a field of a struct, is decoded to that value: after the tag the
\* elements are delivered in order as sequence elements, the fields as
\* key/value pairs, and the composite's PopList is consumed.
VariantsDecode ==
    input.kind = "value" /\ Subject(input.v).k \in {"TupleVariant", "StructVariant"}
        /\ pc \in {"read", "read_aborted"} =>
            DecodedWhole

\* C16: the document of a sequence or of a tuple of integers, at the root
\* or as a field of a struct, is decoded to that value with its closing
\* PopList consumed, whether the consumer asks for elements until it is
\* told there is none (serde_value::Value) or asks for exactly as many as
\* its arity (a tuple type).
SeqConsumesPopList ==
    input.kind = "value" /\ IsSeqOfU8(Subject(input.v)) /\ pc \in {"read", "read_aborted"} =>
        DecodedWhole

\* C17: the document of a map or of a struct with n entries, whose keys
\* and values are leaves or composites, is decoded entry by entry: the n
\* pairs are delivered in document order, each pair's PushOrderedList and
\* PopList and the map's closing PopList are consumed, and nothing is left.
MapProtocol ==
    input.kind = "value" /\ input.v.k \in {"Map", "Struct"}
        /\ (\A i \in 1..Len(input.v.v) : IsPlain(input.v.v[i][1]) /\ IsPlain(input.v.v[i][2]))
        /\ pc \in {"read", "read_aborted"} =>
            DecodedWhole

(***************************************************************************)
(* The Serializer's current list (ser.rs): a value is serialized by a      *)
(* Serializer whose current list is the one a nested call finds, no list   *)
(* at the root or an ordered list some of whose items are written.         *)
(***************************************************************************)
\* deepest current list a value is serialized under
MaxDepth == 2
\* largest number of items already written in the current list
MaxBullet == 2

\* Serializer.list when serialize is entered: None at the root; for a key
\* the pair's list, an ordered list nothing is written in (serialize_key);
\* for a value, an element or the content of a wrapper an ordered list whose
\* item 0, the key or the tag, is written.
Contexts ==
    {None} \cup {Some(List(d, DottedNumber(n))) : d \in 0..MaxDepth, n \in 0..MaxBullet}

\* Values nested more deeply than those of Values: composite keys and
\* values of a map in a sequence, and wrappers around composites.
DeepValues ==
    {SeqOf(<<MapOf(<< <<SeqOf(<<Unit, OptNone>>), OptSome(Newtype(SeqOf(<<Unit>>)))>> >>),
             String(<<"a">>)>>),
     MapOf(<< <<MapOf(<< <<Prim("U8", Num(1)), SeqOf(<<>>)>> >>),
               MapOf(<< <<OptSome(Unit), Prim("U8", Num(2))>>,
                        <<OptNone, Point(1, 2)>> >>)>> >>),
     OptSome(OptSome(Newtype(SeqOf(<<E_T(1, 2), E_S(1), E_N(1), E_U>>)))),
     SeqOf(<<Prim("U8", Num(1)), Prim("I128", Num(1)), Prim("U8", Num(2))>>)}

NestedInput(v, list) == [kind |-> "nested", v |-> v, list |-> list]

NestedInputs ==
    {NestedInput(v, l) :
        v \in Values \cup {x[1] : x \in Typed} \cup {H(x[1]) : x \in Typed} \cup DeepValues
              \cup {Prim(x[1], FloatOf(x[1], x[2])) : x \in FloatSamples}
              \cup {Prim("Bytes", b) : b \in Buffers}
              \cup {Prim(k, Num(1)) : k \in {"I64", "U64", "I128", "U128"}},
        l \in Contexts}

InitSer ==
    /\ input \in NestedInputs
    /\ pc = "nested"
    /\ output = <<>>
    /\ cursor = input.list
    /\ reader = None
    /\ tokens = <<>>
    /\ result = None

\* value.serialize(&mut *self.serializer), as SublistSerializer and
\* MapSerializer call it, and at the root.
SerializeNested ==
    /\ pc = "nested"
    /\ LET done(s) ==
               /\ output' = s.out
               /\ cursor' = s.list
               /\ tokens' = s.calls
               /\ pc' = IF s.err = None THEN "written" ELSE "failed"
       IN  done(serialize([Serializer_new EXCEPT !.list = cursor], input.v))
    /\ UNCHANGED <<input, reader, result>>

SpecSer == InitSer /\ [][SerializeNested]_vars

\* C18: after a value is serialized, the Serializer's current list is the
\* list it was before: none if it was none, else the same list with its
\* number advanced by one.  This holds of the call that was made and of
\* every call nested in it that returned Ok: of the elements, the keys, the
\* values and the contents of wrappers, whatever the outer call comes to.
CursorRestored ==
    /\ pc = "written" =>
           cursor = IF input.list = None THEN None
                    ELSE Some(List(input.list[1].depth,
                                   DottedNumber(input.list[1].bullet.n + 1)))
    /\ pc = "written" => tokens # <<>> /\ tokens[Len(tokens)].before = input.list
    /\ \A i \in 1..Len(tokens) :
           tokens[i].ok =>
               tokens[i].after =
                   IF tokens[i].before = None THEN None
                   ELSE Some(List(tokens[i].before[1].depth,
                                  DottedNumber(tokens[i].before[1].bullet.n + 1)))

\* A map of one entry has been serialized as the third item of a list of
\* depth 1, which now stands at its fourth item; its key was serialized as
\* the first item of the pair's list and its value as the second.
CursorRestoredWitness ==
    /\ pc = "written"
    /\ input.v.k = "Map" /\ Len(input.v.v) = 1
    /\ input.list = Some(List(1, DottedNumber(2)))
    /\ cursor = Some(List(1, DottedNumber(3)))
    /\ Len(tokens) >= 3
    /\ \E i \in 1..Len(tokens) : \E j \in (i + 1)..Len(tokens) :
           /\ tokens[i].ok /\ tokens[j].ok
           /\ tokens[i].before # None /\ tokens[i].before[1].bullet = DottedNumber(0)
           /\ tokens[j].before = tokens[i].after

(***************************************************************************)
(* Integers (ser.rs serialize_int!, de.rs primitive).                      *)
(***************************************************************************)
\* The URI of an integer type: "serde://" and the type's name.
IntTagURI(k) ==
    CASE k = "I128" -> Str("serde://i128")
      [] k = "U128" -> Str("serde://u128")
      [] OTHER -> int_uri(k)

\* C19: an integer of any width, negative or not, is written as one leaf
\* with the tag of its type; the Reader yields the leaf with the decimal
\* form of the integer as its text, and the Deserializer parses it back to
\* the integer.
IntegerLeavesRoundTrip ==
    input.kind = "value" /\ input.v.k \in IntKinds \cup {"I128", "U128"} =>
        /\ pc # "failed"
        /\ pc \in {"exhausted", "read"} =>
               tokens = <<Link(FmtInt(input.v.v), IntTagURI(input.v.k))>>
        /\ pc \in {"read", "read_aborted"} => result = Some(Ok(input.v))

(***************************************************************************)
(* The Reader on the Writer's output (reader.rs 83-132).                   *)
(***************************************************************************)
\* C20: polled on a document the Serializer or the Writer wrote, until it
\* first reports the end, the Reader does not abort: no bullet assertion
\* fails and the branch of any other leading character is not reached.
ReaderAcceptsWriterOutput ==
    input.kind \in {"value", "leaf"} => pc \notin {"aborted", "read_aborted"}


(***************************************************************************)
(* The Reader on arbitrary text.  The caller builds a Reader on a text of  *)
(* a few lines and polls it; unlike a for loop it goes on polling after a  *)
(* None, until the Reader has reported MaxEnds of them.  result is the     *)
(* history of the calls: "Some", "None" or "panic" for each.               *)
(***************************************************************************)
MaxLines == 3

MaxEnds == 2

Widths == {0, 1, 3}

\* What may follow the indentation on a line: an item of an unordered and
\* of an ordered list, a bullet with an empty body, a link without a
\* bullet, an item whose line break is missing, and a link text that no
\* parenthesis follows.
LineBodies ==
    {Str("* [a](u)\n"), Str("12. [b](u)\n"), Str("* \n"), Str("[c](u)\n"),
     Str("* [d](u)"), Str("[e]\n")}

RawLines == {Spaces(w) \o b : w \in Widths, b \in LineBodies}

\* tail is the part of the text from a violating item on, for the texts
\* that are built around one, and rest the lines after that item.
RawInput(doc, tail, rest) ==
    [kind |-> IF tail = <<>> THEN "raw" ELSE "bad", doc |-> doc, tail |-> tail, rest |-> rest]

RawInputs == {RawInput(Concat(ls), <<>>, <<>>) : ls \in SeqsUpTo(RawLines, MaxLines)}

\* Well-formed lines before a violating item: none, one list, a list
\* nested in another.
GoodPrefixes ==
    {<<>>, Str("* [a](u)\n"), Str("1. [a](u)\n2. \n  * [b](u)\n")}

\* The bullet of the violating item, if it has a well-formed one.
GoodBullets == {<<>>, Str("* "), Str("12. ")}

\* Item bodies that begin with a character other than a digit, an
\* asterisk, a line break or an opening bracket.
OtherBodies == {Str("x\n"), Str(")\n"), Str("](u)\n"), Str("-[z](u)\n"), Str("\t* [z](u)\n"), Str(".")}

\* Bullets whose dot or whose space is missing.
BadBullets ==
    {Str("*[z](u)\n"), Str("*x\n"), Str("*\n"), Str("*"), Str("1.[z](u)\n"), Str("12"),
     Str("3[z](u)\n"), Str("7.\n"), Str("7."), Str("1 . [z](u)\n"), Str("1.2. [z](u)\n")}

\* A second space after a bullet begins the item's body.
SecondSpace == {Str(" [z](u)\n")}

BadTails ==
    {<<b, body, <<>> >> : b \in GoodBullets, body \in OtherBodies \cup BadBullets}
    \cup {<<b, body, Str("* [z](u)\n")>> :
              b \in GoodBullets,
              body \in {t \in OtherBodies \cup BadBullets : t[Len(t)] = "\n"}}
    \cup {<<b, body, <<>> >> : b \in GoodBullets \ {<<>>}, body \in SecondSpace}

BadInputs ==
    {RawInput(p \o Spaces(w) \o t[1] \o t[2] \o t[3], t[2] \o t[3], t[3]) :
         p \in GoodPrefixes, w \in Widths, t \in BadTails}

InitRead ==
    /\ input \in RawInputs \cup BadInputs
    /\ pc = "text"
    /\ output = input.doc
    /\ cursor = None
    /\ reader = None
    /\ tokens = <<>>
    /\ result = None

\* Reader::new(text)
OpenText ==
    /\ pc = "text"
    /\ reader' = Some(Reader_new(output))
    /\ pc' = "polling"
    /\ UNCHANGED <<input, output, cursor, tokens, result>>

Ends(calls) == Len(SelectSeq(calls, LAMBDA c : c = "None"))

\* Reader::next, once, whatever the calls before it returned.
PollText ==
    /\ pc \in {"polling", "ended"}
    /\ Ends(result) < MaxEnds
    /\ LET returned(r) ==
               /\ reader' = Some(r.rd)
               /\ tokens' = IF r.ret = "Some" THEN Append(tokens, r.item) ELSE tokens
               /\ result' = Append(result, r.ret)
               /\ pc' = CASE r.ret = "Some" -> "polling"
                          [] r.ret = "None" -> "ended"
                          [] r.ret = "panic" -> "aborted"
       IN  returned(Reader_next(reader[1]))
    /\ UNCHANGED <<input, output, cursor>>

NextRead == OpenText \/ PollText

SpecRead == InitRead /\ [][NextRead]_vars

\* C21: a structural violation is fatal.  On a text whose well-formed lines
\* are followed by an item that begins with a character other than a
\* digit, an asterisk, a line break or an opening bracket, or whose bullet
\* lacks its dot or its single space, the Reader never reports the end and
\* no call returns having read into the violating item: polling ends in a
\* panic that has consumed the violating character and nothing of the
\* lines after the item, and no link of that item or of a later line is
\* yielded.
StructuralViolationsFatal ==
    input.kind = "bad" =>
        /\ pc # "ended"
        /\ reader # None /\ pc # "aborted" => Len(reader[1].chars) >= Len(input.tail)
        /\ pc = "aborted" =>
               /\ Len(reader[1].chars) < Len(input.tail)
               /\ Len(reader[1].chars) >= Len(input.rest)
        /\ \A i \in 1..Len(tokens) : tokens[i] # Link(<<"z">>, <<"u">>)

StructuralViolationsWitness ==
    /\ input.kind = "bad"
    /\ pc = "aborted"
    /\ Len(tokens) >= 4
    /\ starts_with(input.tail, Str("*[z](u)\n"))
    /\ Len(input.tail) > 8

RECURSIVE Iterations(_)
\* The number of times one call of Reader::next goes round its loop.
Iterations(rd) ==
    CASE rd.state.tag = "BeforeItem" ->
           1 + Iterations([rd EXCEPT !.chars = SubSeq(rd.chars, next_depth(rd.chars) + 1,
                                                      Len(rd.chars)),
                                     !.state = InItem(next_depth(rd.chars))])
      [] rd.state.tag = "InItem" ->
           IF dedented(rd) THEN 1
           ELSE IF rd.chars = <<>> THEN 1 + Iterations([rd EXCEPT !.state = EOF])
           ELSE IF is_ascii_digit(Head(rd.chars)) \/ Head(rd.chars) = "*"
           THEN IF read_bullet(rd, Head(rd.chars), Tail(rd.chars)).cont
                THEN 1 + Iterations(read_bullet(rd, Head(rd.chars), Tail(rd.chars)).res.rd)
                ELSE 1
           ELSE IF Head(rd.chars) = "\n"
           THEN 1 + Iterations([rd EXCEPT !.chars = Tail(rd.chars), !.state = BeforeItem])
           ELSE 1
      [] rd.state.tag = "EOF" -> 1

\* What a call returns when no text is left: a PopList and the innermost
\* list closed while a list is open, None after that.
AtEndOfInput(rd, r) ==
    IF rd.indents = <<>> THEN r.ret = "None"
    ELSE /\ r.ret = "Some"
         /\ r.item = PopList
         /\ r.rd.indents = Front(rd.indents)
         /\ r.rd.chars = <<>>

Callable == reader # None /\ pc \in {"polling", "ended"}

\* C22: the Reader is finite.  A call of next goes round its loop at most
\* twice for every character left and three times more, so it returns; the
\* tokens yielded are never more than the characters of the text, so a
\* caller that keeps polling gets a None or a panic after that many calls
\* at most; a call made when no text is left yields a PopList and closes
\* one list while a list is open, and returns None once none is.
ReaderFinite ==
    /\ Callable => Iterations(reader[1]) <= 2 * Len(reader[1].chars) + 3
    /\ Len(tokens) <= Len(output)
    /\ Callable /\ reader[1].chars = <<>>
           => AtEndOfInput(reader[1], Reader_next(reader[1]))

ReaderFiniteWitness ==
    /\ pc = "ended"
    /\ result = <<"Some", "Some", "Some", "Some", "Some", "Some", "None">>
    /\ tokens[5] = PopList
    /\ tokens[6] = PopList
    /\ reader[1].state = EOF

\* The text ends with a well-formed item whose line break is missing.
EndsWithLeaf == Len(output) >= 8 /\ SubSeq(output, Len(output) - 7, Len(output)) = Str("* [d](u)")

\* C23: the end of the sequence is reported only at the true end.  When a
\* call has returned None the whole text is consumed and no list is open;
\* a final item whose line lacks its line break has been yielded by then;
\* and every call after a None returns None.
EndOnlyAtTrueEnd ==
    /\ pc = "ended" => reader[1].chars = <<>> /\ reader[1].indents = <<>>
    /\ pc = "ended" /\ EndsWithLeaf
           => \E i \in 1..Len(tokens) : tokens[i] = Link(<<"d">>, <<"u">>)
    /\ \A i \in 1..Len(result) : \A j \in i..Len(result) :
           result[i] = "None" => result[j] = "None"

\* The text consumed so far, and the indentation of its last line.
Consumed == SubSeq(output, 1, Len(output) - Len(reader[1].chars))

LastBreak(s) ==
    IF \E i \in 1..Len(s) : s[i] = "\n"
    THEN CHOOSE i \in 1..Len(s) : s[i] = "\n" /\ \A j \in (i + 1)..Len(s) : s[j] # "\n"
    ELSE 0

LineWidth(s) == next_depth(SubSeq(s, LastBreak(s) + 1, Len(s)))

IsPush(t) == t.t \in {"PushOrderedList", "PushUnorderedList"}

\* The last call yielded a Push.
Pushed == result # <<>> /\ Last(result) = "Some" /\ IsPush(Last(tokens))

\* C24: the indent stack.  In every state the Reader reaches, whatever the
\* calls returned before, the indentations on the stack increase strictly
\* from bottom to top and are as many as the Push tokens yielded less the
\* PopList tokens yielded; a call that yields a Push has pushed the
\* indentation of the item the Reader is in, which, as long as no call has
\* returned None, is the number of spaces before the bullet on its line.
IndentStackInvariant ==
    reader # None /\ pc # "aborted" =>
        /\ \A i \in 1..(Len(reader[1].indents) - 1) :
               reader[1].indents[i] < reader[1].indents[i + 1]
        /\ Len(reader[1].indents) = Pushes(tokens) - Pops(tokens)
        /\ Pushed => /\ reader[1].state.tag = "InItem"
                     /\ Last(reader[1].indents) = reader[1].state.depth
        /\ Pushed /\ Ends(result) = 0 => Last(reader[1].indents) = LineWidth(Consumed)

IndentStackWitness ==
    /\ Pushed
    /\ Ends(result) = 0
    /\ reader[1].indents = <<1, 3>>
    /\ Pops(tokens) >= 1

=============================================================================
